---------------------------- MODULE Spec2Model ----------------------------
(***************************************************************************)
(* Model of the public-data extractors of ingesta-datos-publicos:          *)
(*   - the retrying GET of Dane (_retry_get) and SiMEM                     *)
(*     (_http_get_with_retries),                                           *)
(*   - the orchestrators Dane run_extraction and BanRep consolidate,       *)
(*   - the paginated catalogue search NadaClient.search_catalog,           *)
(*   - the cache gate and raw-file persistence of PWT load_pwt,            *)
(*   - the type inference of SiMEM _fallback_infer_types,                  *)
(*   - the table stages of SiMEM fetch_dataset_and_clean (flattening,     *)
(*     coercion, clean-up, filters, column subset) and the wide views of  *)
(*     BanRep consolidate and PWT _build_views.                           *)
(* Each component has its own variables and its own specification; a      *)
(* component that a specification does not run stays in its idle state.    *)
(***************************************************************************)
EXTENDS Integers, Sequences, FiniteSets, TLC

VARIABLES
    \* ---- retrying GET (Dane _retry_get / SiMEM _http_get_with_retries)
    fImpl,        \* which implementation runs: "dane" or "simem"
    max_retries,  \* SiMEM parameter max_retries (Dane: the fixed range(5))
    backoff0,     \* the initial delay: SiMEM parameter backoff, Dane 1.0
    attempt,      \* loop variable: Dane range(5) -> 0..4, SiMEM 1..max_retries
    backoff,      \* Dane's running backoff (doubled after each sleep)
    r,            \* the last response received
    last_exc,     \* SiMEM's last_exc
    responses,    \* log of what the source answered, one entry per request
    sleeps,       \* log of the time.sleep delays, in order
    fOutcome,     \* how the call ended: kind "none" while it is running
    \* ---- orchestrators (Dane run_extraction / BanRep consolidate)
    bImpl,        \* "dane" or "banrep"
    requested,    \* the caller's list: sid_list / flows (<<>>: None, [], "ALL")
    q,            \* Dane: whether a search text q was given
    searchResult, \* Dane: what client.search_catalog answers if it is called
    fate,         \* per unit: what processing that unit meets at the source
    units,        \* study_ids / flows once resolved
    bIdx,         \* position of the loop over units (next unit to process)
    included,     \* units merged into the aggregate: all_studies / dfs
    warned,       \* BanRep: units skipped with logger.warning
    bpc,          \* "resolve", "loop", "finish" or "done"
    bOutcome,     \* how the batch ended
    \* ---- NadaClient.search_catalog
    page_size,    \* parameter page_size (sent as ps)
    max_pages,    \* parameter max_pages
    limit_studies,\* parameter limit_studies; 0 stands for None and for 0,
                  \* which `if limit_studies and ...` does not tell apart
    ids,          \* the accumulated study ids
    offset,       \* the offset of the next request
    page,         \* loop variable of `for page in range(max_pages)`
    requestLog,   \* log of the offsets requested, in order
    pages,        \* log of the pages received (each the ids of its rows)
    pOutcome,     \* how the search ended, and the list it returned
    \* ---- PWT load_pwt: cache gate and raw file
    fs,           \* out_dir: file name -> bytes, NoFile where there is none
    use_cache,    \* parameter use_cache
    meta,         \* the FileMeta picked by _prefer_main_file (label, checksum)
    raw,          \* the local variable raw
    dlLog,        \* this run's download requests, each with what it got
    wrote,        \* whether this run has executed write_bytes
    prevWrites,   \* the bytes earlier runs downloaded and persisted, by name
    run,          \* number of the load_pwt run in progress
    cpc,          \* position in load_pwt
    cOutcome,     \* how the run ended
    \* ---- SiMEM _fallback_infer_types, one column
    col,          \* the column: its dtype and how many of its cells parse
                  \* as datetimes, are non-null but do not parse, are null
    inferred,     \* the column's dtype after the inference ("pending" before)
    \* ---- table stages (SiMEM fetch_dataset_and_clean, the wide views)
    df_in,        \* the input of the operation: a table, or the records
    conf,         \* the operation's parameters
    df,           \* the table the operation works on and returns
    warnings,     \* the warnings printed or logged, in order
    hist,         \* fetch_dataset_and_clean: the table after each stage run
    tpc,          \* position: the stage to run next, "done", "raised"
    \* ---- the units of a batch, step by step
    ustate,       \* where each unit is in its processing
    upc,          \* the step the loop body runs next
    fetchLog      \* the units whose fetch was issued, in order

fetchVars == <<fImpl, max_retries, backoff0, attempt, backoff, r, last_exc,
               responses, sleeps, fOutcome>>

batchVars == <<bImpl, requested, q, searchResult, fate, units, bIdx,
               included, warned, bpc, bOutcome>>

pageVars == <<page_size, max_pages, limit_studies, ids, offset, page,
              requestLog, pages, pOutcome>>

cacheVars == <<fs, use_cache, meta, raw, dlLog, wrote, prevWrites, run, cpc,
               cOutcome>>

inferVars == <<col, inferred>>

tableVars == <<df_in, conf, df, warnings, hist, tpc>>

lifeVars == <<ustate, upc, fetchLog>>

vars == <<fetchVars, batchVars, pageVars, cacheVars, inferVars, tableVars,
          lifeVars>>

-----------------------------------------------------------------------------
(* Bounds of the model *)

MaxRetries == 4      \* SiMEM max_retries ranges over 0..MaxRetries
MaxBackoff == 2      \* SiMEM backoff ranges over 1..MaxBackoff
MaxUnits == 3        \* a batch has at most MaxUnits studies / flows
MaxPageSize == 2     \* page_size ranges over 1..MaxPageSize
MaxPages == 3        \* max_pages ranges over 0..MaxPages
MaxLimit == 3        \* limit_studies ranges over 0..MaxLimit
MaxRuns == 2         \* load_pwt runs in a row over the same out_dir
MaxColLen == 20      \* a column has at most MaxColLen cells

-----------------------------------------------------------------------------
(* ========================= Resilient fetcher ========================== *)

DaneAttempts == 5        \* for attempt in range(5)
DaneInitialBackoff == 1  \* backoff = 1.0
DaneRetryStatuses == {429, 500, 502, 503, 504}

\* HTTP statuses the modelled source may answer with.
Statuses == {200, 304, 400, 403, 404, 429, 500, 501, 502, 503, 504}

Http(s) == [kind |-> "http", status |-> s]
\* session.get / requests.get raising instead of answering
\* (connection reset, timeout).
TransportError == [kind |-> "exc", status |-> 0]
NoResponse == [kind |-> "none", status |-> 0]

Responses == {Http(s) : s \in Statuses} \cup {TransportError}

Running == [kind |-> "none", status |-> 0]
Returned(resp) == [kind |-> "returned", status |-> resp.status]
\* requests.HTTPError raised by raise_for_status, carrying the response
HTTPError(resp) == [kind |-> "HTTPError", status |-> resp.status]
\* RuntimeError(f"HTTP {r.status_code}: ...") built by SiMEM
RuntimeErrorHTTP(resp) == [kind |-> "RuntimeError", status |-> resp.status]
\* the transport exception itself
TransportRaised == [kind |-> "TransportException", status |-> 0]
\* `raise None`: TypeError, exceptions must derive from BaseException
TypeErrorRaised == [kind |-> "TypeError", status |-> 0]
NoException == [kind |-> "None", status |-> 0]

\* requests.Response.raise_for_status raises for 400 <= status < 600
RaisesForStatus(resp) == 400 <= resp.status /\ resp.status < 600

DaneReturns(resp) == resp.status < 400
DaneRetries(resp) == resp.status \in DaneRetryStatuses
SimemReturns(resp) == 200 <= resp.status /\ resp.status < 300

FetchInit ==
    /\ fImpl \in {"dane", "simem"}
    /\ IF fImpl = "dane"
         THEN /\ max_retries = DaneAttempts
              /\ backoff0 = DaneInitialBackoff
              /\ attempt = 0
         ELSE /\ max_retries \in 0..MaxRetries
              /\ backoff0 \in 1..MaxBackoff
              /\ attempt = 1
    /\ backoff = backoff0
    /\ r = NoResponse
    /\ last_exc = NoException
    /\ responses = <<>>
    /\ sleeps = <<>>
    /\ fOutcome = Running

\* The component at rest, for the specifications that do not run it.
FetchIdle ==
    /\ fImpl = "idle" /\ max_retries = 0 /\ backoff0 = 0 /\ attempt = 0
    /\ backoff = 0 /\ r = NoResponse /\ last_exc = NoException
    /\ responses = <<>> /\ sleeps = <<>> /\ fOutcome = Running

FetchFrame == UNCHANGED <<batchVars, pageVars, cacheVars, inferVars,
                          tableVars, lifeVars>>

\* One iteration of Dane's `for attempt in range(5)`.
DaneAttempt ==
    /\ fImpl = "dane" /\ fOutcome = Running /\ attempt < DaneAttempts
    /\ \E resp \in Responses :
         /\ responses' = Append(responses, resp)
         /\ IF resp.kind = "exc"
              THEN \* session.get raises: nothing catches it
                   /\ fOutcome' = TransportRaised
                   /\ UNCHANGED <<r, sleeps, backoff, attempt>>
              ELSE
                /\ r' = resp
                /\ IF DaneReturns(resp)
                     THEN /\ fOutcome' = Returned(resp)
                          /\ UNCHANGED <<sleeps, backoff, attempt>>
                     ELSE IF DaneRetries(resp)
                       THEN /\ sleeps' = Append(sleeps, backoff)
                            /\ backoff' = backoff * 2
                            /\ attempt' = attempt + 1
                            /\ UNCHANGED fOutcome
                       ELSE \* r.raise_for_status() inside the loop
                            /\ RaisesForStatus(resp)
                            /\ fOutcome' = HTTPError(resp)
                            /\ UNCHANGED <<sleeps, backoff, attempt>>
    /\ UNCHANGED <<fImpl, max_retries, backoff0, last_exc>>
    /\ FetchFrame

\* The r.raise_for_status() after the loop.
DaneExhausted ==
    /\ fImpl = "dane" /\ fOutcome = Running /\ attempt = DaneAttempts
    /\ fOutcome' = IF RaisesForStatus(r) THEN HTTPError(r) ELSE Returned(r)
    /\ UNCHANGED <<fImpl, max_retries, backoff0, attempt, backoff, r,
                   last_exc, responses, sleeps>>
    /\ FetchFrame

\* One iteration of SiMEM's `for attempt in range(1, max_retries + 1)`.
SimemAttempt ==
    /\ fImpl = "simem" /\ fOutcome = Running /\ attempt <= max_retries
    /\ \E resp \in Responses :
         /\ responses' = Append(responses, resp)
         /\ IF resp.kind # "exc" /\ SimemReturns(resp)
              THEN /\ r' = resp
                   /\ fOutcome' = Returned(resp)
                   /\ UNCHANGED <<last_exc, sleeps, attempt>>
              ELSE
                /\ IF resp.kind = "exc"
                     THEN last_exc' = TransportRaised /\ UNCHANGED r
                     ELSE last_exc' = RuntimeErrorHTTP(resp) /\ r' = resp
                /\ sleeps' = IF attempt < max_retries
                               THEN Append(sleeps, backoff0 * attempt)
                               ELSE sleeps
                /\ attempt' = attempt + 1
                /\ UNCHANGED fOutcome
    /\ UNCHANGED <<fImpl, max_retries, backoff0, backoff>>
    /\ FetchFrame

\* `raise last_exc` after the loop.
SimemExhausted ==
    /\ fImpl = "simem" /\ fOutcome = Running /\ attempt > max_retries
    /\ fOutcome' = IF last_exc = NoException THEN TypeErrorRaised ELSE last_exc
    /\ UNCHANGED <<fImpl, max_retries, backoff0, attempt, backoff, r,
                   last_exc, responses, sleeps>>
    /\ FetchFrame

FetchNext == DaneAttempt \/ DaneExhausted \/ SimemAttempt \/ SimemExhausted

-----------------------------------------------------------------------------
(* ----------------------- fetcher: the claims -------------------------- *)

RECURSIVE Pow2(_)
Pow2(n) == IF n = 0 THEN 1 ELSE 2 * Pow2(n - 1)

FetchEnded == fOutcome # Running
FetchRaised == FetchEnded /\ fOutcome.kind # "returned"
LastResponse == responses[Len(responses)]
EveryResponseIs(resp) ==
    /\ responses # <<>>
    /\ \A i \in DOMAIN responses : responses[i] = resp

\* 4xx other than 429
Fatal4xx(resp) ==
    resp.kind = "http" /\ 400 <= resp.status /\ resp.status < 500
                       /\ resp.status # 429
\* 429, any 5xx, or a transport-level failure
Transient(resp) ==
    \/ resp.kind = "exc"
    \/ resp.kind = "http" /\ (resp.status = 429 \/
                              (500 <= resp.status /\ resp.status <= 599))

\* C1 (retry bound): a call that ended against a source answering 503 to
\* every request issued exactly max_retries requests, slept d, 2d, 4d, ...
\* between them (d the initial backoff), and raised an error that carries
\* status 503.
C1_RetryBound ==
    (FetchEnded /\ EveryResponseIs(Http(503))) =>
        /\ Len(responses) = max_retries
        /\ \A i \in 1..(Len(responses) - 1) :
               /\ i <= Len(sleeps)
               /\ sleeps[i] = backoff0 * Pow2(i - 1)
        /\ FetchRaised
        /\ fOutcome.status = 503

\* C2 (no retry on 4xx): a 4xx answer other than 429 is the only and last
\* request of the call, no backoff sleep follows it, and the call, once
\* ended, has failed with that status.
C2_NoRetryOnFatal4xx ==
    \A i \in DOMAIN responses :
        Fatal4xx(responses[i]) =>
            /\ i = 1 /\ Len(responses) = 1
            /\ sleeps = <<>>
            /\ FetchEnded => (FetchRaised /\ fOutcome.status = responses[i].status)

\* C3 (retry on transient failures): a call never gives up on a 429, a 5xx
\* or a transport failure while attempts remain, and a call that returned
\* returned the response of its last, successful request.
C3_RetryOnTransient ==
    /\ (FetchRaised /\ responses # <<>> /\ Transient(LastResponse))
           => Len(responses) = max_retries
    /\ (FetchEnded /\ fOutcome.kind = "returned")
           => /\ responses # <<>>
              /\ LastResponse.kind = "http"
              /\ fOutcome.status = LastResponse.status
              /\ ~Transient(LastResponse) /\ ~Fatal4xx(LastResponse)

\* every attempt the call has was made, and each failed in a way the call
\* retries
EveryAttemptFailed ==
    /\ max_retries > 0 /\ Len(responses) = max_retries
    /\ \A i \in DOMAIN responses : Transient(responses[i])

\* C27 (backoff only between attempts): a call whose every attempt failed
\* with a retryable error slept exactly (attempts - 1) times, and no sleep
\* comes after its last failed attempt: once the last answer is in, the
\* next thing the call does is raise.
C27_SleepsBetweenAttempts ==
    (fImpl # "idle" /\ EveryAttemptFailed) =>
        /\ Len(sleeps) = max_retries - 1
        /\ FetchEnded => FetchRaised

-----------------------------------------------------------------------------
(* ============================ Orchestrators =========================== *)

UnitIds == 1..MaxUnits
\* lists of distinct unit ids, in any order
UnitLists ==
    UNION {{l \in [1..n -> UnitIds] : \A i, j \in 1..n : l[i] = l[j] => i = j}
             : n \in 0..MaxUnits}

\* What a unit meets at the source:
\*   Dane    "ok" | "fetch_error" (export_metadata raises: _retry_get's
\*           error, a body that is not JSON) | "parse_error" (parse_study or
\*           parse_variables raises on the body)
\*   BanRep  "ok" | "missing" (no <fid>.csv in out_dir/data) |
\*           "load_error" (load_one_flow_csv raises on the file)
DaneFates == {"ok", "fetch_error", "parse_error"}
BanrepFates == {"ok", "missing", "load_error"}

BatchRunning == [kind |-> "running", unit |-> 0]
BatchReturned == [kind |-> "returned", unit |-> 0]
BatchRaises(k, u) == [kind |-> k, unit |-> u]

\* `if not study_ids` / `if not flows`
NoUnits(l) == l = <<>>
\* `if not dfs`
NothingLoaded_Off(l) == FALSE
NothingLoaded(l) == l = <<>>

RECURSIVE SortedSeq(_)
\* sorted(...) of a set of unit ids
SortedSeq(S) ==
    IF S = {} THEN <<>>
    ELSE LET m == CHOOSE x \in S : \A y \in S : x <= y
         IN <<m>> \o SortedSeq(S \ {m})

\* list_available_flows: the sorted names of the CSV files that exist
list_available_flows == SortedSeq({u \in UnitIds : fate[u] # "missing"})

BatchInit ==
    /\ bImpl \in {"dane", "banrep"}
    /\ requested \in UnitLists
    /\ IF bImpl = "dane"
         THEN \* --sid and --q exclude each other; the search answers
              \* only when it is called
              /\ q \in IF requested = <<>> THEN BOOLEAN ELSE {FALSE}
              /\ searchResult \in
                    IF q THEN [ok : {TRUE}, ids : UnitLists]
                                \cup {[ok |-> FALSE, ids |-> <<>>]}
                         ELSE {[ok |-> FALSE, ids |-> <<>>]}
              /\ fate \in [UnitIds -> DaneFates]
         ELSE /\ q = FALSE
              /\ searchResult = [ok |-> FALSE, ids |-> <<>>]
              /\ fate \in [UnitIds -> BanrepFates]
    /\ units = <<>>
    /\ bIdx = 1
    /\ included = <<>>
    /\ warned = <<>>
    /\ bpc = "resolve"
    /\ bOutcome = BatchRunning

BatchIdle ==
    /\ bImpl = "idle" /\ requested = <<>> /\ q = FALSE
    /\ searchResult = [ok |-> FALSE, ids |-> <<>>]
    /\ fate = [u \in UnitIds |-> "ok"]
    /\ units = <<>> /\ bIdx = 1 /\ included = <<>> /\ warned = <<>>
    /\ bpc = "done" /\ bOutcome = BatchRunning

BatchFrame == UNCHANGED <<fetchVars, pageVars, cacheVars, inferVars,
                          tableVars, lifeVars>>

BatchEnds(o) == bpc' = "done" /\ bOutcome' = o

\* run_extraction up to the loop: resolve study_ids, refuse an empty list.
DaneResolve ==
    /\ bImpl = "dane" /\ bpc = "resolve"
    /\ IF requested # <<>>
         THEN /\ units' = requested
              /\ bpc' = "loop" /\ UNCHANGED bOutcome
         ELSE IF ~q
           THEN /\ BatchEnds(BatchRaises("ValueError", 0))
                /\ UNCHANGED units
           ELSE IF ~searchResult.ok
             THEN \* search_catalog raised: it propagates
                  /\ BatchEnds(BatchRaises("search_error", 0))
                  /\ UNCHANGED units
             ELSE /\ units' = searchResult.ids
                  /\ IF NoUnits(searchResult.ids)
                       THEN BatchEnds(BatchRaises("RuntimeError", 0))
                       ELSE bpc' = "loop" /\ UNCHANGED bOutcome
    /\ UNCHANGED <<bImpl, requested, q, searchResult, fate, bIdx, included,
                   warned>>
    /\ BatchFrame

\* One iteration of `for sid in study_ids`: export_metadata, parse_study,
\* parse_variables, the variable filters, all_vars.extend.  Nothing in the
\* loop catches an exception.
DaneUnit ==
    /\ bImpl = "dane" /\ bpc = "loop" /\ bIdx <= Len(units)
    /\ LET sid == units[bIdx] IN
         IF fate[sid] = "ok"
           THEN /\ included' = Append(included, sid)
                /\ bIdx' = bIdx + 1
                /\ UNCHANGED <<bpc, bOutcome>>
           ELSE /\ BatchEnds(BatchRaises(fate[sid], sid))
                /\ UNCHANGED <<included, bIdx>>
    /\ UNCHANGED <<bImpl, requested, q, searchResult, fate, units, warned>>
    /\ BatchFrame

\* After the loop: build the two frames and return them.
DaneReturn ==
    /\ bImpl = "dane" /\ bpc = "loop" /\ bIdx > Len(units)
    /\ BatchEnds(BatchReturned)
    /\ UNCHANGED <<bImpl, requested, q, searchResult, fate, units, bIdx,
                   included, warned>>
    /\ BatchFrame

\* consolidate up to the loop: resolve flows, refuse an empty list.
BanrepResolve ==
    /\ bImpl = "banrep" /\ bpc = "resolve"
    /\ LET flows == IF requested = <<>> THEN list_available_flows
                                         ELSE requested
       IN /\ units' = flows
          /\ IF NoUnits(flows)
               THEN BatchEnds(BatchRaises("RuntimeError", 0))
               ELSE bpc' = "loop" /\ UNCHANGED bOutcome
    /\ UNCHANGED <<bImpl, requested, q, searchResult, fate, bIdx, included,
                   warned>>
    /\ BatchFrame

\* One iteration of `for fid in flows`: a missing CSV is warned about and
\* skipped; load_one_flow_csv is not guarded.
BanrepUnit ==
    /\ bImpl = "banrep" /\ bpc = "loop" /\ bIdx <= Len(units)
    /\ LET fid == units[bIdx] IN
         IF fate[fid] = "missing"
           THEN /\ warned' = Append(warned, fid)
                /\ bIdx' = bIdx + 1
                /\ UNCHANGED <<included, bpc, bOutcome>>
           ELSE IF fate[fid] = "ok"
             THEN /\ included' = Append(included, fid)
                  /\ bIdx' = bIdx + 1
                  /\ UNCHANGED <<warned, bpc, bOutcome>>
             ELSE /\ BatchEnds(BatchRaises(fate[fid], fid))
                  /\ UNCHANGED <<included, warned, bIdx>>
    /\ UNCHANGED <<bImpl, requested, q, searchResult, fate, units>>
    /\ BatchFrame

\* After the loop: `if not dfs: raise`, else concat, pivot, save, return.
BanrepFinish ==
    /\ bImpl = "banrep" /\ bpc = "loop" /\ bIdx > Len(units)
    /\ IF NothingLoaded(included)
         THEN BatchEnds(BatchRaises("RuntimeError", 0))
         ELSE BatchEnds(BatchReturned)
    /\ UNCHANGED <<bImpl, requested, q, searchResult, fate, units, bIdx,
                   included, warned>>
    /\ BatchFrame

BatchNext ==
    \/ DaneResolve \/ DaneUnit \/ DaneReturn
    \/ BanrepResolve \/ BanrepUnit \/ BanrepFinish

-----------------------------------------------------------------------------
(* --------------------- orchestrators: the claims ---------------------- *)

BatchEnded == bpc = "done"
BatchRaised == BatchEnded /\ bOutcome.kind # "returned"
UnitOk(u) == fate[u] = "ok"
OkUnits == SelectSeq(units, UnitOk)
FailedUnits == SelectSeq(units, LAMBDA u : ~UnitOk(u))

\* C4 (unit-failure isolation): a batch in which some unit fails and some
\* unit succeeds ends by returning, never by raising; the result holds
\* exactly the succeeding units, in order, and every failing unit has been
\* recorded.
C4_UnitFailureIsolation ==
    (BatchEnded /\ OkUnits # <<>> /\ FailedUnits # <<>>) =>
        /\ bOutcome = BatchReturned
        /\ included = OkUnits
        /\ warned = FailedUnits

\* C5 (batch failure): the orchestrator returns only when at least one
\* unit was resolved and succeeded; with no unit resolved, or none
\* succeeding, the batch ends with an error and never with a result.
C5_BatchFailure ==
    /\ bOutcome = BatchReturned =>
          /\ units # <<>> /\ OkUnits # <<>>
          /\ included # <<>>
    /\ (BatchEnded /\ OkUnits = <<>>) => BatchRaised

\* C5 witness: every CSV of a non-empty flow list is missing, the loop has
\* skipped them all, and consolidate raised.
C5_Witness_AllUnitsFail ==
    /\ bImpl = "banrep" /\ BatchRaised
    /\ units # <<>> /\ bIdx > Len(units)
    /\ \A i \in DOMAIN units : fate[units[i]] = "missing"
-----------------------------------------------------------------------------
(* ======================= Paginated catalogue search =================== *)

NoId == 0                \* a row without "id": row.get("id") is None
StudyIds == {1, 2}
RowIds == StudyIds \cup {NoId}

\* the pages a source may answer a request for ps rows with
PagesOf(ps) == UNION {[1..n -> RowIds] : n \in 0..ps}

SearchRunning == [kind |-> "running", ids |-> <<>>]
SearchReturned(l) == [kind |-> "returned", ids |-> l]
\* _retry_get raised (or r.json() did): search_catalog lets it through
SearchRaised == [kind |-> "raised", ids |-> <<>>]

HasId(x) == x # NoId
\* [row.get("id") for row in rows if row.get("id") is not None]
RowIdsOf(rows) == SelectSeq(rows, HasId)

\* ids.extend(...)
Extend_Prepend(l, rows) == RowIdsOf(rows) \o l
Extend(l, rows) == l \o RowIdsOf(rows)

\* `if limit_studies and len(ids) >= limit_studies`
CeilingReached(l, limit) == limit # 0 /\ Len(l) >= limit
\* ids[:limit_studies]
Truncate(l, limit) == SubSeq(l, 1, IF limit < Len(l) THEN limit ELSE Len(l))
\* `if len(rows) < page_size: break`
ShortPage_Never(rows, ps) == FALSE
ShortPage(rows, ps) == Len(rows) < ps
\* `for page in range(max_pages)`: the loop body runs for page below max_pages
LoopRuns_Inclusive(p, mp) == p <= mp
LoopRuns(p, mp) == p < mp

PageInit ==
    /\ page_size \in 1..MaxPageSize
    /\ max_pages \in 0..MaxPages
    /\ limit_studies \in 0..MaxLimit
    /\ ids = <<>>
    /\ offset = 0
    /\ page = 0
    /\ requestLog = <<>>
    /\ pages = <<>>
    /\ pOutcome = SearchRunning

PageIdle ==
    /\ page_size = 0 /\ max_pages = 0 /\ limit_studies = 0
    /\ ids = <<>> /\ offset = 0 /\ page = 0
    /\ requestLog = <<>> /\ pages = <<>> /\ pOutcome = SearchRunning

PageFrame == UNCHANGED <<fetchVars, batchVars, cacheVars, inferVars,
                         tableVars, lifeVars>>

\* One iteration of `for page in range(max_pages)` answered with a page.
SearchPage ==
    /\ pOutcome = SearchRunning /\ page_size > 0
    /\ LoopRuns(page, max_pages)
    /\ requestLog' = Append(requestLog, offset)
    /\ \E rows \in PagesOf(page_size) :
         /\ pages' = Append(pages, rows)
         /\ IF rows = <<>>
              THEN \* `if not rows: break`, then `return ids`
                   /\ pOutcome' = SearchReturned(ids)
                   /\ UNCHANGED <<ids, offset, page>>
              ELSE
                /\ ids' = Extend(ids, rows)
                /\ IF CeilingReached(ids', limit_studies)
                     THEN /\ pOutcome' = SearchReturned(
                                            Truncate(ids', limit_studies))
                          /\ UNCHANGED <<offset, page>>
                     ELSE
                       /\ offset' = offset + page_size
                       /\ IF ShortPage(rows, page_size)
                            THEN /\ pOutcome' = SearchReturned(ids')
                                 /\ UNCHANGED page
                            ELSE /\ page' = page + 1
                                 /\ UNCHANGED pOutcome
    /\ UNCHANGED <<page_size, max_pages, limit_studies>>
    /\ PageFrame

\* The same iteration when _retry_get raises: the error leaves the search.
SearchPageFails ==
    /\ pOutcome = SearchRunning /\ page_size > 0
    /\ LoopRuns(page, max_pages)
    /\ requestLog' = Append(requestLog, offset)
    /\ pOutcome' = SearchRaised
    /\ UNCHANGED <<page_size, max_pages, limit_studies, ids, offset, page,
                   pages>>
    /\ PageFrame

\* The loop ran max_pages times: `return ids`.
SearchExhausted ==
    /\ pOutcome = SearchRunning /\ page_size > 0
    /\ ~ LoopRuns(page, max_pages)
    /\ pOutcome' = SearchReturned(ids)
    /\ UNCHANGED <<page_size, max_pages, limit_studies, ids, offset, page,
                   requestLog, pages>>
    /\ PageFrame

PageNext == SearchPage \/ SearchPageFails \/ SearchExhausted

-----------------------------------------------------------------------------
(* ------------------------ pagination: the claims ---------------------- *)

RECURSIVE Flatten(_)
\* the ids of a list of pages, page after page, each in page order
Flatten(ps) ==
    IF ps = <<>> THEN <<>>
    ELSE Flatten(SubSeq(ps, 1, Len(ps) - 1)) \o RowIdsOf(ps[Len(ps)])

IsPrefix(a, b) == Len(a) <= Len(b) /\ a = SubSeq(b, 1, Len(a))

\* the number of ids gathered from the first i pages
GatheredBy(i) == Len(Flatten(SubSeq(pages, 1, i)))
HasCeiling == limit_studies # 0
\* a stop condition holds once page i has arrived
StopAfter(i) ==
    \/ pages[i] = <<>>
    \/ Len(pages[i]) < page_size
    \/ HasCeiling /\ GatheredBy(i) >= limit_studies

\* C6 (pagination stop): the offsets requested increase; the page at which
\* the first stop condition holds (empty page, page shorter than page_size,
\* gathered ids reaching the ceiling) is the last one requested and the
\* search returns on it; with a ceiling the returned list is no longer
\* than the ceiling.
C6_PaginationStop ==
    /\ \A i \in 1..(Len(requestLog) - 1) : requestLog[i] < requestLog[i + 1]
    /\ \A i \in DOMAIN pages :
          StopAfter(i) => /\ i = Len(pages) /\ Len(requestLog) = i
                          /\ pOutcome.kind = "returned"
    /\ (pOutcome.kind = "returned" /\ HasCeiling)
          => Len(pOutcome.ids) <= limit_studies

\* C6 witness: after a full first page, a second page was requested at a
\* larger offset and stopped the search.
C6_Witness_StopOnSecondPage ==
    /\ Len(pages) = 2 /\ Len(pages[1]) = page_size
    /\ StopAfter(2) /\ pOutcome.kind = "returned"

\* C7 (pagination order): while the search runs, ids is the concatenation
\* of the received pages' ids in retrieval order; the returned list is that
\* concatenation, cut to its first limit_studies ids when the ceiling was
\* reached.
C7_PaginationOrder ==
    /\ pOutcome.kind = "running" => ids = Flatten(pages)
    /\ pOutcome.kind = "returned" =>
          /\ IsPrefix(pOutcome.ids, Flatten(pages))
          /\ pOutcome.ids =
                IF HasCeiling /\ Len(Flatten(pages)) >= limit_studies
                  THEN SubSeq(Flatten(pages), 1, limit_studies)
                  ELSE Flatten(pages)

\* C7 witness: two pages were retrieved and the returned list holds ids of
\* both, the first page's first, in an order that is not sorted.
C7_Witness_TwoPages ==
    /\ pOutcome.kind = "returned" /\ Len(pages) = 2
    /\ RowIdsOf(pages[1]) # <<>> /\ RowIdsOf(pages[2]) # <<>>
    /\ pOutcome.ids = RowIdsOf(pages[1]) \o RowIdsOf(pages[2])
    /\ pOutcome.ids[1] > pOutcome.ids[Len(pOutcome.ids)]

\* every page received so far was full and left the search running
AllPagesFull == \A i \in DOMAIN pages : Len(pages[i]) = page_size
\* at most max_pages requests, the k-th (from 0) at offset k * page_size
RequestsBounded ==
    /\ Len(requestLog) <= max_pages
    /\ \A k \in DOMAIN requestLog : requestLog[k] = (k - 1) * page_size
\* after max_pages pages the search is over with the ids gathered so far
ReturnsGathered ==
    (pOutcome.kind = "returned" /\ page = max_pages)
        => pOutcome.ids = ids /\ ids = Flatten(pages)

\* C26 (pagination bounded): whatever pages the source answers with, full
\* pages without end included, the search makes at most max_pages page
\* requests, the k-th (k = 0, 1, ...) at offset k * page_size, and then
\* ends: it stops running, and when it returns after max_pages pages it
\* returns the ids gathered so far.
C26_PaginationBounded ==
    /\ [](page_size > 0 => RequestsBounded /\ ReturnsGathered)
    /\ (page_size > 0) ~> (pOutcome.kind # "running")

\* C26 witness: the source answered every one of max_pages >= 2 requests
\* with a full page, and the search returned after the last of them.
C26_Witness_FullPagesToTheBound ==
    /\ max_pages >= 2 /\ Len(requestLog) = max_pages /\ page = max_pages
    /\ Len(pages) = max_pages /\ AllPagesFull
    /\ pOutcome.kind = "returned" /\ pOutcome.ids # <<>>

-----------------------------------------------------------------------------
(* ==================== PWT: cache gate and raw file ==================== *)

\* The labels of a main file: those _prefer_main_file accepts
\* (^pwt\d+\.dta$ and ^pwt\d+\.xlsx$, where $ also matches before a final
\* newline).
MainLabels == {"pwt110.dta", "pwt110.dta\n", "pwt110.xlsx"}

\* _safe_name: strip, then every run of characters outside [\w\-.]
\* becomes "_"; on the labels above only the strip changes anything.
_safe_name(label) ==
    CASE label = "pwt110.dta"   -> "pwt110.dta"
      [] label = "pwt110.dta\n" -> "pwt110.dta"
      [] label = "pwt110.xlsx"  -> "pwt110.xlsx"

FileNames == {_safe_name(l) : l \in MainLabels}

\* File contents: two Stata files, an Excel workbook, bytes no reader reads.
Contents == {"dtaA", "dtaB", "xlsA", "junk"}
NoFile == "<no file>"
None == "None"

\* hashlib.md5(bytes).hexdigest()
md5(b) ==
    CASE b = "dtaA" -> "0f3a"
      [] b = "dtaB" -> "91c7"
      [] b = "xlsA" -> "5be2"
      [] b = "junk" -> "d41d"

\* The checksum of a FileMeta: "" stands for None and for the empty
\* string, which `if meta.checksum` does not tell apart.
Checksums == {""} \cup {md5(b) : b \in Contents}

NoMeta == [label |-> "", checksum |-> ""]
Metas == [label : MainLabels, checksum : Checksums]

\* `_read_stata(raw) if meta.label.lower().endswith(".dta") else
\*  _read_excel_main_sheet(raw)`: whether the chosen reader reads the bytes
EndsWithDta(label) == label = "pwt110.dta"
Reads(label, b) ==
    IF EndsWithDta(label) THEN b \in {"dtaA", "dtaB"} ELSE b = "xlsA"

\* _maybe_use_cache(out_dir, meta): the local bytes, or None
_maybe_use_cache_IgnoreChecksum(f, m) ==
    LET p == _safe_name(m.label) IN IF f[p] = NoFile THEN None ELSE f[p]
_maybe_use_cache(f, m) ==
    LET p == _safe_name(m.label) IN
      IF f[p] = NoFile THEN None
      ELSE IF m.checksum # ""
        THEN IF md5(f[p]) = m.checksum THEN f[p] ELSE None
        ELSE f[p]

\* the file written as text, its bytes translated: what is stored is no
\* longer what was downloaded
write_bytes_AsText(f, label, b) == [f EXCEPT ![_safe_name(label)] = "junk"]
\* (out / _safe_name(meta.label)).write_bytes(raw)
write_bytes_Skipped(f, label, b) == f
write_bytes(f, label, b) == [f EXCEPT ![_safe_name(label)] = b]

Request(format, result) == [format |-> format, result |-> result]

CacheRunning == "running"

CacheInit ==
    /\ fs \in [FileNames -> Contents \cup {NoFile}]
    /\ use_cache \in BOOLEAN
    /\ meta = NoMeta
    /\ raw = None
    /\ dlLog = <<>>
    /\ wrote = FALSE
    /\ prevWrites = [p \in FileNames |-> NoFile]
    /\ run = 1
    /\ cpc = "start"
    /\ cOutcome = CacheRunning

CacheIdle ==
    /\ fs = [p \in FileNames |-> NoFile] /\ use_cache = FALSE
    /\ meta = NoMeta /\ raw = None /\ dlLog = <<>> /\ wrote = FALSE
    /\ prevWrites = [p \in FileNames |-> NoFile] /\ run = 0
    /\ cpc = "idle" /\ cOutcome = CacheRunning

CacheFrame == UNCHANGED <<fetchVars, batchVars, pageVars, inferVars,
                          tableVars, lifeVars>>

\* load_pwt up to the cache gate: list the files, pick the main one.
LoadStart ==
    /\ cpc = "start"
    /\ \/ \E m \in Metas : meta' = m /\ cpc' = "cache" /\ UNCHANGED cOutcome
       \/ \* list_files_latest_published raises, or no main file is listed
          /\ cOutcome' = "DataverseError" /\ cpc' = "done" /\ UNCHANGED meta
    /\ UNCHANGED <<fs, use_cache, raw, dlLog, wrote, prevWrites, run>>
    /\ CacheFrame

\* raw = _maybe_use_cache(out, meta) if use_cache else None
CacheGate ==
    /\ cpc = "cache"
    /\ raw' = IF use_cache THEN _maybe_use_cache(fs, meta) ELSE None
    /\ cpc' = IF raw' = None THEN "download" ELSE "parse"
    /\ UNCHANGED <<fs, use_cache, meta, dlLog, wrote, prevWrites, run,
                   cOutcome>>
    /\ CacheFrame

\* download_file_by_id(base, meta.id, original=True): the first request.
DownloadOriginal ==
    /\ cpc = "download"
    /\ \/ \E b \in Contents :
            /\ dlLog' = Append(dlLog, Request("original", b))
            /\ raw' = b /\ cpc' = "write" /\ UNCHANGED cOutcome
       \/ \* raise_for_status raises HTTPError: retry without the format
          /\ dlLog' = Append(dlLog, Request("original", "HTTPError"))
          /\ cpc' = "fallback" /\ UNCHANGED <<raw, cOutcome>>
       \/ \* SESSION.get itself raises
          /\ dlLog' = Append(dlLog, Request("original", "TransportError"))
          /\ cOutcome' = "TransportError" /\ cpc' = "done" /\ UNCHANGED raw
    /\ UNCHANGED <<fs, use_cache, meta, wrote, prevWrites, run>>
    /\ CacheFrame

\* the second request made with original still set: its HTTP error is
\* caught like the first one's and the file is requested once more
DownloadFallback_Again ==
    /\ cpc = "fallback" /\ Len(dlLog) < 4
    /\ \/ \E b \in Contents :
            /\ dlLog' = Append(dlLog, Request("default", b))
            /\ raw' = b /\ cpc' = "write" /\ UNCHANGED cOutcome
       \/ /\ dlLog' = Append(dlLog, Request("default", "HTTPError"))
          /\ UNCHANGED <<cpc, raw, cOutcome>>
       \/ /\ dlLog' = Append(dlLog, Request("default", "TransportError"))
          /\ cOutcome' = "TransportError" /\ cpc' = "done" /\ UNCHANGED raw
    /\ UNCHANGED <<fs, use_cache, meta, wrote, prevWrites, run>>
    /\ CacheFrame

\* download_file_by_id(base, file_id, original=False): the second request.
DownloadFallback ==
    /\ cpc = "fallback"
    /\ \/ \E b \in Contents :
            /\ dlLog' = Append(dlLog, Request("default", b))
            /\ raw' = b /\ cpc' = "write" /\ UNCHANGED cOutcome
       \/ /\ dlLog' = Append(dlLog, Request("default", "HTTPError"))
          /\ cOutcome' = "HTTPError" /\ cpc' = "done" /\ UNCHANGED raw
       \/ /\ dlLog' = Append(dlLog, Request("default", "TransportError"))
          /\ cOutcome' = "TransportError" /\ cpc' = "done" /\ UNCHANGED raw
    /\ UNCHANGED <<fs, use_cache, meta, wrote, prevWrites, run>>
    /\ CacheFrame

\* The write_bytes after the download.
WriteRaw ==
    /\ cpc = "write"
    /\ fs' = write_bytes(fs, meta.label, raw)
    /\ wrote' = TRUE
    /\ cpc' = "parse"
    /\ UNCHANGED <<use_cache, meta, raw, dlLog, prevWrites, run, cOutcome>>
    /\ CacheFrame

\* Read raw with the reader the label selects; the rest of load_pwt
\* (normalise, filter, build the views) follows a successful read.
ParseRaw ==
    /\ cpc = "parse"
    /\ cOutcome' = IF Reads(meta.label, raw) THEN "returned" ELSE "ParseError"
    /\ cpc' = "done"
    /\ UNCHANGED <<fs, use_cache, meta, raw, dlLog, wrote, prevWrites, run>>
    /\ CacheFrame

\* The next run of load_pwt over the same out_dir.
NextRun ==
    /\ cpc = "done" /\ run < MaxRuns
    /\ prevWrites' = IF wrote
                       THEN [prevWrites EXCEPT ![_safe_name(meta.label)] = raw]
                       ELSE prevWrites
    /\ run' = run + 1
    /\ use_cache' \in BOOLEAN
    /\ meta' = NoMeta /\ raw' = None /\ dlLog' = <<>> /\ wrote' = FALSE
    /\ cpc' = "start" /\ cOutcome' = CacheRunning
    /\ UNCHANGED fs
    /\ CacheFrame

CacheNext ==
    \/ LoadStart \/ CacheGate \/ DownloadOriginal \/ DownloadFallback
    \/ WriteRaw \/ ParseRaw \/ NextRun

-----------------------------------------------------------------------------
(* -------------------------- cache: the claims ------------------------- *)

\* the run is past the cache gate
GatePassed ==
    \/ cpc \in {"download", "fallback", "write", "parse"}
    \/ cpc = "done" /\ cOutcome # "DataverseError"
LocalFile == fs[_safe_name(meta.label)]
\* what C8 says makes a hit
HitCondition ==
    /\ LocalFile # NoFile
    /\ (meta.checksum = "" \/ md5(LocalFile) = meta.checksum)
\* the run took the cache branch: it holds the local bytes and has issued,
\* and will issue, no download request
TookCache == dlLog = <<>> /\ cpc \in {"parse", "done"} /\ raw = LocalFile
\* the run took the download branch
TookDownload == cpc = "download" \/ dlLog # <<>>

\* C8 (cache decision): in a run with use_cache, as long as the run has not
\* itself rewritten the file, it took the cache branch (raw is the local
\* bytes, no download request) exactly when the local file exists and the
\* source gave no checksum or the local file's MD5 equals it; otherwise it
\* took the download branch.
C8_CacheDecision ==
    (GatePassed /\ use_cache /\ ~wrote) =>
        /\ HitCondition <=> TookCache
        /\ ~HitCondition <=> TookDownload

\* C8 witness: a local file whose MD5 differs from the source checksum
\* was found and the download was requested.
C8_Witness_StaleCopy ==
    /\ GatePassed /\ use_cache /\ ~wrote
    /\ LocalFile # NoFile /\ meta.checksum # ""
    /\ md5(LocalFile) # meta.checksum
    /\ dlLog # <<>>

Downloaded == dlLog[Len(dlLog)].result

\* C9 (cache write ordering): whenever a run that downloaded is at, or
\* past, the parse, the file at the expected path holds exactly the
\* downloaded bytes, whether or not the parse succeeds; and a later run
\* with use_cache whose meta names the same path with the checksum of the
\* bytes an earlier run persisted takes them from the cache without a
\* download request.
C9_WriteBeforeParse ==
    /\ (dlLog # <<>> /\ cpc \in {"parse", "done"}
          /\ cOutcome \in {CacheRunning, "returned", "ParseError"})
         => /\ Downloaded \in Contents
            /\ LocalFile = Downloaded
            /\ raw = Downloaded
    /\ (GatePassed /\ use_cache
          /\ prevWrites[_safe_name(meta.label)] # NoFile
          /\ meta.checksum = md5(prevWrites[_safe_name(meta.label)]))
         => /\ dlLog = <<>>
            /\ raw = prevWrites[_safe_name(meta.label)]

\* C9 witness: the second run takes from the cache the bytes the first run
\* downloaded and persisted, bytes that the reader does not read.
C9_Witness_LaterRunHits ==
    /\ run = 2 /\ use_cache /\ cpc = "done" /\ cOutcome = "ParseError"
    /\ dlLog = <<>>
    /\ prevWrites[_safe_name(meta.label)] = raw
    /\ meta.checksum = md5(raw)

\* C29 (download fallback bounded): a download makes at most two requests
\* for the file, the first with format=original; a second one is made only
\* after the first ended in an HTTP error, and without the format; an HTTP
\* error of the second ends the run with that error and no third request.
C29_FallbackBounded ==
    /\ Len(dlLog) <= 2
    /\ dlLog # <<>> => dlLog[1].format = "original"
    /\ Len(dlLog) >= 2 =>
          /\ dlLog[1].result = "HTTPError"
          /\ dlLog[2].format = "default"
          /\ dlLog[2].result = "HTTPError"
                => (cpc = "done" /\ cOutcome = "HTTPError")
    /\ cpc = "fallback" => (Len(dlLog) = 1 /\ dlLog[1].result = "HTTPError")

\* C29 witness: both requests of a download ended in an HTTP error and the
\* run ended with it.
C29_Witness_BothRequestsFail ==
    /\ Len(dlLog) = 2
    /\ dlLog[1] = Request("original", "HTTPError")
    /\ dlLog[2] = Request("default", "HTTPError")
    /\ cpc = "done" /\ cOutcome = "HTTPError"

-----------------------------------------------------------------------------
(* ================== SiMEM: fallback type inference ==================== *)

\* A column is described by what pd.to_datetime(df[col], errors="coerce")
\* makes of its cells: `valid` cells parse, `invalid` cells are non-null
\* values that become NaT, `null` cells are null before and after.
Column(d, v, i, n) == [dtype |-> d, valid |-> v, invalid |-> i, null |-> n]
Columns ==
    {Column(d, v, i, n) : d \in {"object", "float64"},
                          v \in 0..MaxColLen, i \in 0..MaxColLen,
                          n \in 0..MaxColLen}
ColLen(c) == c.valid + c.invalid + c.null

\* the threshold 0.9 as the fraction ThresholdNum / ThresholdDen
ThresholdNum == 9
ThresholdDen == 10

\* parsed.notna().mean() > 0.9: the mean runs over every cell of the
\* column; the mean of an empty column is NaN, which exceeds nothing
NotnaMeanAboveThreshold(c) ==
    /\ ColLen(c) > 0
    /\ ThresholdDen * c.valid > ThresholdNum * ColLen(c)

\* the dtype the loop body of _fallback_infer_types leaves the column with
InferColumn(c) ==
    IF NotnaMeanAboveThreshold(c) THEN "datetime64[ns]"
    ELSE IF c.dtype = "object" THEN "string"
    ELSE c.dtype

InferInit ==
    \* a float64 column holds numbers, which all parse, and NaN
    /\ col \in {c \in Columns : /\ ColLen(c) <= MaxColLen
                                /\ c.dtype = "float64" => c.invalid = 0}
    /\ inferred = "pending"

InferIdle == col = Column("object", 0, 0, 0) /\ inferred = "idle"

InferFrame == UNCHANGED <<fetchVars, batchVars, pageVars, cacheVars,
                          tableVars, lifeVars>>

\* _fallback_infer_types on the column
FallbackInfer ==
    /\ inferred = "pending"
    /\ inferred' = InferColumn(col)
    /\ UNCHANGED col
    /\ InferFrame

InferNext == FallbackInfer

-----------------------------------------------------------------------------
(* ------------------------ inference: the claims ----------------------- *)

NonNull(c) == c.valid + c.invalid

\* C10 (inference threshold): a column with non-null cells is committed to
\* datetime exactly when at least 90% of its non-null cells parse as
\* datetimes, null cells not counted.
C10_InferenceThreshold ==
    (inferred \notin {"pending", "idle"} /\ NonNull(col) > 0) =>
        (inferred = "datetime64[ns]"
            <=> ThresholdDen * col.valid >= ThresholdNum * NonNull(col))

-----------------------------------------------------------------------------
(* ============ tables: names, cells and the pandas operations ========== *)

MaxRows == 2         \* a table has at most MaxRows rows

\* A table (DataFrame) is its column labels, in order, and its rows, each
\* row the cells of the columns in that order.
Table(cols, rows) == [columns |-> cols, rows |-> rows]
EmptyTable == Table(<<>>, <<>>)

\* A cell: the null marker (None, NaN, NaT, <NA>), a text, a number of the
\* JSON payload, a timestamp (defined with the date filter), or the
\* calendar date that `.dt.date` makes of a timestamp.
Null == <<"null">>
Text(s) == <<"str", s>>
IsText(c) == c[1] = "str"
Num(n) == <<"num", n>>
IsNum(c) == c[1] = "num"
Date(d) == <<"date", d>>
IsDate(c) == c[1] = "date"

RECURSIVE SeqsUpTo(_, _)
\* the sequences over S of length at most n
SeqsUpTo(S, n) ==
    IF n = 0 THEN {<<>>}
    ELSE LET shorter == SeqsUpTo(S, n - 1)
         IN shorter \cup {Append(s, x) : s \in {t \in shorter : Len(t) = n - 1},
                                         x \in S}

\* the position of the first column labelled c, 0 when there is none
ColumnIndex(cols, c) ==
    IF \E i \in 1..Len(cols) : cols[i] = c
    THEN CHOOSE i \in 1..Len(cols) :
             cols[i] = c /\ \A j \in 1..(i - 1) : cols[j] # c
    ELSE 0
HasColumn(cols, c) == ColumnIndex(cols, c) # 0

\* ---- column names: a name is the sequence of its characters
LowerCase == {"a", "b", "h", "z"}
UpperCase == {"A", "B", "H"}
Digits == {"1"}
\* the characters of the class [\s\-\/]
Separators == {" ", "-", "/"}

\* str.lower() on one character
LowerChar(c) ==
    CASE c = "A" -> "a"
      [] c = "B" -> "b"
      [] c = "H" -> "h"
      [] OTHER -> c
lower(s) == [i \in 1..Len(s) |-> LowerChar(s[i])]

RECURSIVE InsertUnderscores(_)
\* re.sub(r"([a-z0-9])([A-Z])", r"\1_\2", name)
InsertUnderscores(s) ==
    IF Len(s) < 2 THEN s
    ELSE IF s[1] \in LowerCase \cup Digits /\ s[2] \in UpperCase
         THEN <<s[1], "_", s[2]>> \o InsertUnderscores(SubSeq(s, 3, Len(s)))
         ELSE <<s[1]>> \o InsertUnderscores(Tail(s))

RECURSIVE SkipSeparators(_)
SkipSeparators(s) ==
    IF s # <<>> /\ s[1] \in Separators THEN SkipSeparators(Tail(s)) ELSE s

RECURSIVE CollapseSeparators(_)
\* re.sub(r"[\s\-\/]+", "_", s)
CollapseSeparators(s) ==
    IF s = <<>> THEN <<>>
    ELSE IF s[1] \in Separators
         THEN <<"_">> \o CollapseSeparators(SkipSeparators(s))
         ELSE <<s[1]>> \o CollapseSeparators(Tail(s))

RECURSIVE ReplaceDoubleUnderscore(_)
\* s.replace("__", "_"): one pass, left to right, without overlap
ReplaceDoubleUnderscore(s) ==
    IF Len(s) < 2 THEN s
    ELSE IF s[1] = "_" /\ s[2] = "_"
         THEN <<"_">> \o ReplaceDoubleUnderscore(SubSeq(s, 3, Len(s)))
         ELSE <<s[1]>> \o ReplaceDoubleUnderscore(Tail(s))

_snake_case(name) ==
    lower(ReplaceDoubleUnderscore(CollapseSeparators(InsertUnderscores(name))))

\* `_snake_case(col) if to_snake else col`
Canonical(name, to_snake) == IF to_snake THEN _snake_case(name) ELSE name

\* the name of no column: what a filter's column lookup ends with when
\* neither the name nor a case-insensitive match is a column
NoName == <<>>

\* the column lookup of the client-side filters: the name itself, else the
\* first column equal to it up to case
ResolveColumn(cols, name, to_snake) ==
    LET col_eff == Canonical(name, to_snake)
        candidates == {i \in 1..Len(cols) : lower(cols[i]) = lower(col_eff)}
    IN IF HasColumn(cols, col_eff) THEN col_eff
       ELSE IF candidates # {}
            THEN cols[CHOOSE i \in candidates : \A j \in candidates : i <= j]
            ELSE NoName

\* df[col_eff]: the cells of the column, row by row
Series(d, c) == [i \in 1..Len(d.rows) |-> d.rows[i][ColumnIndex(d.columns, c)]]

TableIdle ==
    /\ df_in = EmptyTable /\ conf = [op |-> "idle"] /\ df = EmptyTable
    /\ warnings = <<>> /\ hist = <<>> /\ tpc = "idle"

TableFrame == UNCHANGED <<fetchVars, batchVars, pageVars, cacheVars,
                          inferVars, lifeVars>>

-----------------------------------------------------------------------------
(* ================= SiMEM: _apply_client_date_filter =================== *)

\* A timestamp (datetime64[ns]) is a day number, the second of the day and
\* the nanosecond of the second; a Timedelta has the same three parts.
SecondsPerDay == 86400
NanosPerSecond == 1000000000
Ts(d, s, n) == <<"ts", d, s, n>>
IsTs(c) == c[1] = "ts"

\* timestamp + Timedelta, carrying nanoseconds into seconds into days
TsAdd(t, delta) ==
    LET n == t[4] + delta[3]
        s == t[3] + delta[2] + (n \div NanosPerSecond)
    IN Ts(t[2] + delta[1] + (s \div SecondsPerDay),
          s % SecondsPerDay, n % NanosPerSecond)

\* a <= b on timestamps
TsLeq(a, b) ==
    \/ a[2] < b[2]
    \/ a[2] = b[2] /\ a[3] < b[3]
    \/ a[2] = b[2] /\ a[3] = b[3] /\ a[4] <= b[4]

\* pd.Timedelta(days=0, hours=23, minutes=59, seconds=59,
\*              microseconds=999999)
EndOfDayDelta == <<0, 23 * 3600 + 59 * 60 + 59, 999999 * 1000>>

\* The instants the rows and the bounds are taken from: days 10 and 11 of
\* January 2025 at midnight and noon, and the last microsecond of day 10
\* and the half microsecond after it.
Noon == 12 * 3600
Instants ==
    {Ts(10, 0, 0), Ts(10, Noon, 0), Ts(10, SecondsPerDay - 1, 999999000),
     Ts(10, SecondsPerDay - 1, 999999500), Ts(11, 0, 0), Ts(11, Noon, 0)}

\* The texts of an object column, and what pd.to_datetime(errors="coerce")
\* makes of each.
DateTexts == {"2025-01-10", "2025-01-10T12:00:00", "2025-01-11", "n/a"}
ParseDatetime(s) ==
    CASE s = "2025-01-10" -> Ts(10, 0, 0)
      [] s = "2025-01-10T12:00:00" -> Ts(10, Noon, 0)
      [] s = "2025-01-11" -> Ts(11, 0, 0)
      [] s = "2025-01-11T12:00:00" -> Ts(11, Noon, 0)
      [] OTHER -> Null

\* day 0 of the day numbers is 2024-12-31, which is 20088 days after
\* 1970-01-01, the day pd.to_datetime counts a number's nanoseconds from
EpochDay == -20088

\* A cell whose parsing raised: no cell of the program, it only marks where
\* a parse that does not coerce would have stopped the call.
ParseFailure == <<"raise">>

\* pd.to_datetime(x) on one cell, without errors="coerce": a text that is
\* no date raises
to_datetime_Raising(c) ==
    IF IsText(c)
    THEN (IF ParseDatetime(c[2]) = Null THEN ParseFailure
          ELSE ParseDatetime(c[2]))
    ELSE IF IsDate(c) THEN Ts(c[2], 0, 0)
    ELSE IF IsNum(c) THEN Ts(EpochDay, 0, c[2])
    ELSE c

\* pd.to_datetime(x, errors="coerce") on one cell
to_datetime(c) ==
    IF IsText(c) THEN ParseDatetime(c[2])
    ELSE IF IsDate(c) THEN Ts(c[2], 0, 0)
    ELSE IF IsNum(c) THEN Ts(EpochDay, 0, c[2])
    ELSE c

\* A bound of the date filter: how it is written ("date": YYYY-MM-DD,
\* "datetime": with a time of day, "none": None or "") and the timestamp
\* pd.to_datetime makes of it.
Bound(w, t) == [written |-> w, ts |-> t]
NoBound == Bound("none", Ts(0, 0, 0))
DateBounds ==
    {Bound("date", Ts(10, 0, 0)), Bound("date", Ts(11, 0, 0)),
     Bound("datetime", Ts(10, 0, 0)), Bound("datetime", Ts(10, Noon, 0))}

\* the mask of _apply_client_date_filter for one cell of the date column
DateMask(c, start, end) ==
    LET s == to_datetime(c)
    IN /\ s # Null
       /\ start # NoBound => TsLeq(start.ts, s)
       /\ end # NoBound => TsLeq(s, TsAdd(end.ts, EndOfDayDelta))

\* _apply_client_date_filter(df, conf, to_snake): the table it returns and
\* the warnings it prints
_apply_client_date_filter(d, c, to_snake) ==
    LET col_eff == ResolveColumn(d.columns, c.date_column, to_snake)
        i == ColumnIndex(d.columns, col_eff)
        Keep(row) == DateMask(row[i], c.start, c.end)
    IN IF c.date_column = NoName THEN [df |-> d, warnings |-> <<>>]
       ELSE IF col_eff = NoName
            THEN [df |-> d, warnings |-> <<<<"date_filter", c.date_column>>>>]
            ELSE [df |-> Table(d.columns, SelectSeq(d.rows, Keep)),
                  warnings |-> <<>>]

\* the columns a date filter is tried on, and the names it is given
DateColumns == {<<"h">>, <<"a", "_", "h">>, <<"A", "h">>}
DateColumnNames ==
    {NoName, <<"h">>, <<"A", " ", "H">>, <<"a", "h">>, <<"z">>}

DateFilterInit ==
    /\ \E c \in DateColumns, dtype \in {"datetime64[ns]", "object"} :
        \E cells \in SeqsUpTo(IF dtype = "object"
                              THEN {Text(s) : s \in DateTexts} \cup {Null}
                              ELSE Instants \cup {Null}, MaxRows) :
            df_in = Table(<<c>>, [i \in 1..Len(cells) |-> <<cells[i]>>])
    /\ conf \in [op : {"date_filter"}, date_column : DateColumnNames,
                 start : DateBounds \cup {NoBound},
                 end : DateBounds \cup {NoBound}, to_snake : BOOLEAN]
    /\ df = df_in
    /\ warnings = <<>>
    /\ hist = <<>>
    /\ tpc = "date_filter"

\* one call of _apply_client_date_filter
ClientDateFilter ==
    /\ tpc = "date_filter"
    /\ LET res == _apply_client_date_filter(df, conf, conf.to_snake)
       IN /\ df' = res.df
          /\ warnings' = warnings \o res.warnings
    /\ tpc' = "done"
    /\ UNCHANGED <<df_in, conf, hist>>
    /\ TableFrame

DateFilterNext == ClientDateFilter

(* ----------------------- date filter: the claims ---------------------- *)

\* midnight of the day after the day of t
NextMidnight(t) == Ts(t[2] + 1, 0, 0)

\* the range the claim gives a filter: both ends inclusive, an end written
\* as a date reaching to the end of its day, an end written with a time of
\* day used as given
InClaimedRange(t, start, end) ==
    /\ t # Null
    /\ start # NoBound => TsLeq(start.ts, t)
    /\ end # NoBound =>
          IF end.written = "date"
          THEN TsLeq(t, NextMidnight(end.ts)) /\ t # NextMidnight(end.ts)
          ELSE TsLeq(t, end.ts)

DateFilterApplied ==
    /\ tpc = "done" /\ conf.op = "date_filter"
    /\ ResolveColumn(df_in.columns, conf.date_column, conf.to_snake) # NoName
    /\ conf.date_column # NoName

\* C11 (date-range filter): the filter keeps exactly the rows whose
\* timestamp lies between start and end, both inclusive, where an end given
\* as a date only is extended to the end of its day and an end given with a
\* time of day is used as given.
C11_DateRangeFilter ==
    DateFilterApplied =>
        LET InRange(row) ==
                InClaimedRange(to_datetime(row[1]), conf.start, conf.end)
        IN df.rows = SelectSeq(df_in.rows, InRange)

-----------------------------------------------------------------------------
(* ======= SiMEM: _map_types_by_schema and _fallback_infer_types ======== *)

\* `.dt.date` on one cell
dt_date(c) == IF IsTs(c) THEN Date(c[2]) ELSE c

\* str.strip() on a text of the model
StripText(s) ==
    CASE s = " x " -> "x"
      [] s = "x " -> "x"
      [] OTHER -> s

\* str(n) for the numbers of the model
NumText(n) == IF n = 1 THEN "1" ELSE "2"

\* astype("string") on one cell: null stays null (<NA>)
astype_string(c) == IF IsNum(c) THEN Text(NumText(c[2])) ELSE c

\* .str.strip() on one cell
str_strip(c) == IF IsText(c) THEN Text(StripText(c[2])) ELSE c

\* the dataType values of a schema block, and (c.get("dataType") or
\* "").lower() of each
DataTypes == {"texto", "fecha", "Fecha", "fecha hora", "Fecha Hora", ""}
LowerType(t) ==
    CASE t = "Fecha" -> "fecha"
      [] t = "Fecha Hora" -> "fecha hora"
      [] OTHER -> t

RECURSIVE StripLeft(_)
StripLeft(s) == IF s # <<>> /\ s[1] = " " THEN StripLeft(Tail(s)) ELSE s
RECURSIVE StripRight(_)
StripRight(s) ==
    IF s # <<>> /\ s[Len(s)] = " "
    THEN StripRight(SubSeq(s, 1, Len(s) - 1)) ELSE s

\* _norm: s.strip().lower()
_norm(s) == lower(StripRight(StripLeft(s)))

SchemaEntry(n, t) == [nameColumn |-> n, dataType |-> t]

\* idx.get(key, (None, None))[1]: the declared type of a column, "" when
\* the schema has no entry for it; of two entries with one key the dict
\* comprehension keeps the later
DeclaredType(schema_columns, c) ==
    LET hits == {i \in 1..Len(schema_columns) :
                    /\ schema_columns[i].nameColumn # <<>>
                    /\ _norm(schema_columns[i].nameColumn) = _norm(c)}
    IN IF hits = {} THEN ""
       ELSE LowerType(schema_columns[CHOOSE i \in hits :
                                        \A j \in hits : j <= i].dataType)

\* the loop body of _map_types_by_schema on one cell of a column of
\* declared type dtype
MapCell(c, dtype, strip_text) ==
    IF dtype = "fecha" THEN dt_date(to_datetime(c))
    ELSE IF dtype = "fecha hora" THEN to_datetime(c)
    ELSE IF strip_text THEN str_strip(astype_string(c))
    ELSE astype_string(c)

\* df.rename(columns={c: _snake_case(c) for c in df.columns})
Rename(cols, to_snake) == [i \in 1..Len(cols) |-> Canonical(cols[i], to_snake)]

_map_types_by_schema(d, schema_columns, to_snake, strip_text) ==
    Table(Rename(d.columns, to_snake),
          [i \in 1..Len(d.rows) |->
              [j \in 1..Len(d.columns) |->
                  MapCell(d.rows[i][j],
                          DeclaredType(schema_columns, d.columns[j]),
                          strip_text)]])

\* ---- fallback inference on a table
\* the cells of column j
ColumnCells(d, j) == [i \in 1..Len(d.rows) |-> d.rows[i][j]]

\* df[col].dtype == object: a column of numbers (and NaN) is numeric, any
\* other column of raw cells is object
IsObject(cells) ==
    ~ (/\ \E i \in 1..Len(cells) : IsNum(cells[i])
       /\ \A i \in 1..Len(cells) : IsNum(cells[i]) \/ cells[i] = Null)

\* the column as _fallback_infer_types sees it: its dtype and how many of
\* its cells parse, are values that do not parse, are null
ColumnOf(cells) ==
    LET parse == {i \in 1..Len(cells) : to_datetime(cells[i]) # Null}
        nulls == {i \in 1..Len(cells) : cells[i] = Null}
    IN Column(IF IsObject(cells) THEN "object" ELSE "float64",
              Cardinality(parse),
              Len(cells) - Cardinality(parse) - Cardinality(nulls),
              Cardinality(nulls))

\* the loop body of _fallback_infer_types on one cell of a column
InferCell(c, cells, strip_text) ==
    LET dtype == InferColumn(ColumnOf(cells))
    IN IF dtype = "datetime64[ns]" THEN to_datetime(c)
       ELSE IF dtype = "string"
            THEN (IF strip_text THEN str_strip(astype_string(c))
                  ELSE astype_string(c))
            ELSE c

_fallback_infer_types(d, to_snake, strip_text) ==
    Table(Rename(d.columns, to_snake),
          [i \in 1..Len(d.rows) |->
              [j \in 1..Len(d.columns) |->
                  InferCell(d.rows[i][j], ColumnCells(d, j), strip_text)]])

\* the typing step of fetch_dataset_and_clean (lines 264-267)
Typify(d, schema_columns, to_snake, strip_text) ==
    IF schema_columns # <<>>
    THEN _map_types_by_schema(d, schema_columns, to_snake, strip_text)
    ELSE _fallback_infer_types(d, to_snake, strip_text)

\* whether a parse stopped the typing of the table
Raised(d) ==
    \E i \in 1..Len(d.rows) : \E j \in 1..Len(d.rows[i]) :
        d.rows[i][j] = ParseFailure

-----------------------------------------------------------------------------
(* ================== SiMEM: _apply_client_filters ====================== *)

\* the text of a day, as str() of a date and of a timestamp at midnight
DayText(d) == IF d = 10 THEN "2025-01-10" ELSE "2025-01-11"

\* series.astype(str) on one cell; of the null spellings ("<NA>", "NaT",
\* "nan", "None") and of the texts of timestamps with a time of day the
\* model keeps one each, none of them among the values it filters on
StrOf(c) ==
    IF IsText(c) THEN c[2]
    ELSE IF IsNum(c) THEN NumText(c[2])
    ELSE IF c = Null THEN "<NA>"
    ELSE IF IsDate(c) \/ (c[3] = 0 /\ c[4] = 0) THEN DayText(c[2])
    ELSE "<date time>"

\* the loop pass with the mask taken on the cells as they are, untrimmed
ApplyFilter_Untrimmed(res, f, to_snake) ==
    LET vals == {StripText(v) : v \in f.vals}
        col_eff == ResolveColumn(res.columns, f.col, to_snake)
        i == ColumnIndex(res.columns, col_eff)
        Keep(row) == StrOf(row[i]) \in vals
    IN IF col_eff = NoName
       THEN [df |-> res, warnings |-> <<<<"filter", f.col>>>>]
       ELSE [df |-> Table(res.columns, SelectSeq(res.rows, Keep)),
             warnings |-> <<>>]

\* one pass of the loop of _apply_client_filters: the filter f = (col,
\* vals) on the table res
ApplyFilter(res, f, to_snake) ==
    LET vals == {StripText(v) : v \in f.vals}
        col_eff == ResolveColumn(res.columns, f.col, to_snake)
        i == ColumnIndex(res.columns, col_eff)
        Keep(row) == StripText(StrOf(row[i])) \in vals
    IN IF col_eff = NoName
       THEN [df |-> res, warnings |-> <<<<"filter", f.col>>>>]
       ELSE [df |-> Table(res.columns, SelectSeq(res.rows, Keep)),
             warnings |-> <<>>]

RECURSIVE _apply_client_filters(_, _, _)
\* _apply_client_filters(df, eq_filters, to_snake), eq_filters the items
\* of the dict in order: the table it returns and the warnings it prints
_apply_client_filters(d, eq_filters, to_snake) ==
    IF eq_filters = <<>> THEN [df |-> d, warnings |-> <<>>]
    ELSE LET first == ApplyFilter(d, Head(eq_filters), to_snake)
             rest == _apply_client_filters(first.df, Tail(eq_filters),
                                           to_snake)
         IN [df |-> rest.df, warnings |-> first.warnings \o rest.warnings]

EqFilter(c, v) == [col |-> c, vals |-> v]

\* the columns of the tables a filter is tried on, their cells, and the
\* names and allowed values the filters are given
FilterColumns == <<<<"a", "_", "h">>, <<"B">>>>
FilterCells == {Text("x"), Text(" x "), Text("y"), Null}
FilterNames == {<<"A", " ", "H">>, <<"b">>, <<"z">>}
FilterValues == {{}, {"x"}, {" x ", "y"}}

EqFilterInit ==
    /\ \E rows \in SeqsUpTo([1..2 -> FilterCells], MaxRows) :
        df_in = Table(FilterColumns, rows)
    /\ \E fs1 \in SeqsUpTo({EqFilter(c, v) : c \in FilterNames,
                                             v \in FilterValues}, 2) :
        \E ts \in BOOLEAN :
            /\ \A i, j \in 1..Len(fs1) : i # j => fs1[i].col # fs1[j].col
            /\ conf = [op |-> "filters", eq_filters |-> fs1, to_snake |-> ts]
    /\ df = df_in
    /\ warnings = <<>>
    /\ hist = <<>>
    /\ tpc = "filters"

\* one call of _apply_client_filters
ClientFilters ==
    /\ tpc = "filters"
    /\ LET res == _apply_client_filters(df, conf.eq_filters, conf.to_snake)
       IN /\ df' = res.df
          /\ warnings' = warnings \o res.warnings
    /\ tpc' = "done"
    /\ UNCHANGED <<df_in, conf, hist>>
    /\ TableFrame

EqFilterNext == ClientFilters

(* --------------------- equality filter: the claims -------------------- *)

\* a filter names a column that exists when its name, canonicalized as the
\* renaming does when to_snake is set, is a column label, exactly or up to
\* case
NamesColumn(f) == ResolveColumn(df_in.columns, f.col, conf.to_snake) # NoName
NamesNoColumn(f) == ~ NamesColumn(f)

\* the string-normalized, trimmed value of the row in the filter's column
FilteredValue(row, f) ==
    StripText(StrOf(row[ColumnIndex(df_in.columns,
        ResolveColumn(df_in.columns, f.col, conf.to_snake))]))

\* C15 (equality/membership filter): the rows kept are exactly those
\* whose string-normalized, trimmed value is, for every filter that names
\* an existing column, in that filter's allowed set; a filter naming an
\* unknown column is skipped with a warning and removes nothing.
C15_EqualityFilter ==
    (tpc = "done" /\ conf.op = "filters") =>
        LET fs1 == conf.eq_filters
            Kept(row) ==
                \A k \in 1..Len(fs1) :
                    NamesColumn(fs1[k]) =>
                        FilteredValue(row, fs1[k])
                            \in {StripText(v) : v \in fs1[k].vals}
            skipped == SelectSeq(fs1, NamesNoColumn)
        IN /\ df = Table(df_in.columns, SelectSeq(df_in.rows, Kept))
           /\ warnings = [k \in 1..Len(skipped) |-> <<"filter", skipped[k].col>>]

\* C15 witness: of two rows the one whose cell is "x" with blanks around
\* it is kept and the other removed, while a second filter, on a column
\* the table does not have, is skipped with a warning.
C15_Witness_PaddedKeptUnknownSkipped ==
    /\ tpc = "done" /\ conf.op = "filters"
    /\ Len(conf.eq_filters) = 2
    /\ Len(df_in.rows) = 2 /\ Len(df.rows) = 1
    /\ \E j \in 1..2 : df.rows[1][j] = Text(" x ")
    /\ Len(warnings) = 1

-----------------------------------------------------------------------------
(* ========= SiMEM: the table stages of fetch_dataset_and_clean ========= *)

\* df.empty: no rows or no columns
IsEmpty(d) == Len(d.rows) = 0 \/ Len(d.columns) = 0

\* the table of the columns at the positions js, in that order
Project(d, js) ==
    Table([k \in 1..Len(js) |-> d.columns[js[k]]],
          [i \in 1..Len(d.rows) |-> [k \in 1..Len(js) |-> d.rows[i][js[k]]]])

\* df.dropna(axis=1, how="all")
dropna_columns(d) ==
    Project(d, SortedSeq({j \in 1..Len(d.columns) :
                             \E i \in 1..Len(d.rows) : d.rows[i][j] # Null}))

\* df.drop_duplicates().reset_index(drop=True): each row that equals no
\* earlier row
drop_duplicates(d) ==
    LET keep == SortedSeq({i \in 1..Len(d.rows) :
                              \A k \in 1..(i - 1) : d.rows[k] # d.rows[i]})
    IN Table(d.columns, [k \in 1..Len(keep) |-> d.rows[keep[k]]])

\* lines 284-290: the subset of columns and the warning about the missing
SubsetColumns(d, subset_cols, to_snake) ==
    LET final_cols == Rename(subset_cols, to_snake)
        Missing(c) == ~ HasColumn(d.columns, c)
        Present(c) == HasColumn(d.columns, c)
        missing == SelectSeq(final_cols, Missing)
        keep == SelectSeq(final_cols, Present)
    IN [df |-> IF keep # <<>>
               THEN Project(d, [k \in 1..Len(keep) |->
                                   ColumnIndex(d.columns, keep[k])])
               ELSE d,
        warnings |-> IF missing # <<>> THEN <<<<"subset", missing>>>>
                     ELSE <<>>]

\* ---- the inputs of a run: the table json_normalize made of the records,
\* the schema block of the payload, and the parameters
RawColumns == <<<<"A", " ", "H">>, <<"B">>>>
RawCells1 == {Null, Text("2025-01-10"), Text("n/a")}
RawCells2 == {Null, Text("x"), Text(" x ")}
Schemas ==
    {<<>>,
     <<SchemaEntry(<<"a", " ", "h">>, "Fecha")>>,
     <<SchemaEntry(<<"A", " ", "H">>, "fecha hora"),
       SchemaEntry(<<"B">>, "texto")>>}
NoDateFilter == [date_column |-> NoName, start |-> NoBound, end |-> NoBound]
ClientFilterChoices ==
    {<<>>, <<EqFilter(<<"b">>, {"x"})>>, <<EqFilter(<<"z">>, {"x"})>>}
DateFilterChoices ==
    {NoDateFilter,
     [date_column |-> <<"A", " ", "H">>,
      start |-> Bound("date", Ts(10, 0, 0)),
      end |-> Bound("date", Ts(10, 0, 0))]}
SubsetChoices ==
    {<<>>, <<<<"B">>>>, <<<<"z">>>>, <<<<"B">>, <<"A", " ", "H">>>>,
     <<<<"z">>, <<"A", " ", "H">>>>}

CleanInit ==
    /\ \E rows \in SeqsUpTo(RawCells1 \X RawCells2, MaxRows) :
        df_in = Table(RawColumns, rows)
    /\ conf \in [op : {"clean"}, schema_columns : Schemas,
                 to_snake : BOOLEAN, strip_text : BOOLEAN,
                 drop_duplicates : BOOLEAN, drop_all_null_columns : BOOLEAN,
                 client_filters : ClientFilterChoices,
                 client_date_filter : DateFilterChoices,
                 subset_columns : SubsetChoices]
    /\ df = df_in
    /\ warnings = <<>>
    /\ hist = <<>>
    /\ tpc = "typify"

\* a stage of fetch_dataset_and_clean leaves the table d and the warnings w
Stage(next, d, w) ==
    /\ df' = d
    /\ warnings' = warnings \o w
    /\ hist' = Append(hist, d)
    /\ tpc' = next
    /\ UNCHANGED <<df_in, conf>>
    /\ TableFrame

\* lines 263-267
StageTypify ==
    /\ tpc = "typify"
    /\ LET d == Typify(df, conf.schema_columns, conf.to_snake,
                       conf.strip_text)
       IN Stage(IF Raised(d) THEN "raised" ELSE "drop_null", d, <<>>)

\* lines 270-271
StageDropNull ==
    /\ tpc = "drop_null"
    /\ Stage("dedup",
             IF conf.drop_all_null_columns /\ ~ IsEmpty(df)
             THEN dropna_columns(df) ELSE df, <<>>)

\* lines 272-273
StageDedup ==
    /\ tpc = "dedup"
    /\ Stage("client_filters",
             IF conf.drop_duplicates /\ ~ IsEmpty(df)
             THEN drop_duplicates(df) ELSE df, <<>>)

\* lines 276-277
StageFilters ==
    /\ tpc = "client_filters"
    /\ LET res == IF conf.client_filters # <<>>
                  THEN _apply_client_filters(df, conf.client_filters,
                                             conf.to_snake)
                  ELSE [df |-> df, warnings |-> <<>>]
       IN Stage("client_date_filter", res.df, res.warnings)

\* lines 278-279
StageDateFilter ==
    /\ tpc = "client_date_filter"
    /\ LET c == conf.client_date_filter
           res == IF c # NoDateFilter /\ (c.start # NoBound \/ c.end # NoBound)
                  THEN _apply_client_date_filter(df, c, conf.to_snake)
                  ELSE [df |-> df, warnings |-> <<>>]
       IN Stage("subset", res.df, res.warnings)

\* lines 281-292: the column subset, and the return
StageSubset ==
    /\ tpc = "subset"
    /\ LET res == IF conf.subset_columns # <<>>
                  THEN SubsetColumns(df, conf.subset_columns, conf.to_snake)
                  ELSE [df |-> df, warnings |-> <<>>]
       IN Stage("done", res.df, res.warnings)

CleanNext ==
    \/ StageTypify
    \/ StageDropNull
    \/ StageDedup
    \/ StageFilters
    \/ StageDateFilter
    \/ StageSubset

(* ------------------- table stages: the claims ------------------------- *)

CleanReturned == tpc = "done" /\ conf.op = "clean"

\* the table as it stood when the subset step began
BeforeSubset == hist[Len(hist) - 1]

\* C12 (column subset): when a column subset is requested, the columns of
\* the returned table are the canonicalized requested columns that exist
\* in the table, in requested order, and nothing else, also when none of
\* the requested columns exists; the missing ones are warned about.
C12_ColumnSubset ==
    (CleanReturned /\ conf.subset_columns # <<>>) =>
        LET final_cols == Rename(conf.subset_columns, conf.to_snake)
            Exists(c) == HasColumn(BeforeSubset.columns, c)
            Missing(c) == ~ Exists(c)
        IN /\ df.columns = SelectSeq(final_cols, Exists)
           /\ SelectSeq(final_cols, Missing) # <<>>
                  => warnings # <<>>
                     /\ warnings[Len(warnings)]
                            = <<"subset", SelectSeq(final_cols, Missing)>>

\* C13 (all-null column drop): with drop_all_null_columns set, the table
\* that fetch_dataset_and_clean returns, when it has rows, has no column
\* that is null in every row.
C13_NoAllNullColumn ==
    (CleanReturned /\ conf.drop_all_null_columns /\ Len(df.rows) > 0) =>
        \A j \in 1..Len(df.columns) :
            \E i \in 1..Len(df.rows) : df.rows[i][j] # Null

\* C14 (dedup): with drop_duplicates set, no two rows of the table that
\* fetch_dataset_and_clean returns, when it has columns, are identical.
C14_NoDuplicateRows ==
    (CleanReturned /\ conf.drop_duplicates /\ Len(df.columns) > 0) =>
        \A i, j \in 1..Len(df.rows) : i < j => df.rows[i] # df.rows[j]

-----------------------------------------------------------------------------
(* ======= the wide views: BanRep consolidate and PWT _build_views ====== *)

\* the rank of a text of the model among the texts it is compared with
OrdOf(s) ==
    CASE s = "A" -> 1 [] s = "B" -> 2
      [] s = "F" -> 1 [] s = "G" -> 2 [] s = "L" -> 3
      [] s = "a" -> 1 [] s = "b" -> 2 [] s = "series" -> 3
      [] s = "hc" -> 1 [] s = "pop" -> 2

\* a <= b for two pairs of texts, compared text by text
PairLeq(a, b) ==
    \/ OrdOf(a[1]) < OrdOf(b[1])
    \/ a[1] = b[1] /\ OrdOf(a[2]) <= OrdOf(b[2])

RECURSIVE SortedPairs(_)
\* a set of pairs of texts as the ascending sequence
SortedPairs(S) ==
    IF S = {} THEN <<>>
    ELSE LET m == CHOOSE x \in S : \A y \in S : PairLeq(x, y)
         IN <<m>> \o SortedPairs(S \ {m})

\* An observation of a long table as pivot_table sees it: the index key (a
\* tuple of cells), the label that becomes a column, and the value.
Obs(k, l, v) == [key |-> k, label |-> l, value |-> v]

\* the observations that groupby and aggfunc="first" take into account:
\* groupby drops a row with a null in its key or a null label, "first"
\* skips a null value; a group left without a value is dropped before
\* unstacking, and with its last group a key or a label
Live(long) ==
    {i \in 1..Len(long) :
        /\ \A c \in 1..Len(long[i].key) : long[i].key[c] # Null
        /\ long[i].label # Null
        /\ long[i].value # Null}
LiveKeys(long) == {long[i].key : i \in Live(long)}
LiveLabels(long) == {long[i].label : i \in Live(long)}

\* the aggregation taking the last value of the group
agg_first_Last(long, k, l) ==
    LET hits == {i \in Live(long) : long[i].key = k /\ long[i].label = l}
    IN IF hits = {} THEN Null
       ELSE long[CHOOSE i \in hits : \A j \in hits : j <= i].value

\* aggfunc="first" on the group of key k and label l: its first non-null
\* value, null (NaN) for a group without one
agg_first(long, k, l) ==
    LET hits == {i \in Live(long) : long[i].key = k /\ long[i].label = l}
    IN IF hits = {} THEN Null
       ELSE long[CHOOSE i \in hits : \A j \in hits : i <= j].value

\* a column of a wide view: a key column, or the column of a label
KeyColumn(name) == <<"key", name>>
LabelColumn(l) == <<"label", l>>

\* pivot_table(index=keycols, columns=..., values="value",
\* aggfunc="first").reset_index() with the keys ks and the labels ls in
\* the order the pivot gives them: the key columns, then a column per label
WideTable(long, keycols, ks, ls) ==
    Table([j \in 1..Len(keycols) |-> KeyColumn(keycols[j])]
              \o [j \in 1..Len(ls) |-> LabelColumn(ls[j])],
          [i \in 1..Len(ks) |->
              ks[i] \o [j \in 1..Len(ls) |-> agg_first(long, ks[i], ls[j])]])

\* ---- BanRep consolidate, lines 175-187
\* a row of the concatenated per-flow tables; dates and values are
\* numbers, the dates counted in days
LongRow(f, d, s, v) == [flow_id |-> f, date |-> d, series_name |-> s,
                        value |-> v]
LongRows ==
    {LongRow(f, d, s, v) : f \in {"F", "G"}, d \in {Num(1), Num(2), Null},
                           s \in {"a", "b", "<NA>"},
                           v \in {Num(5), Num(7), Null}}

\* sort_values(["flow_id", "date", "time"]): by flow, then by date with NaT
\* last; rows equal in both stay in their order
LongBefore(a, b) ==
    \/ OrdOf(a.flow_id) < OrdOf(b.flow_id)
    \/ /\ a.flow_id = b.flow_id
       /\ \/ a.date # Null /\ b.date = Null
          \/ a.date # Null /\ b.date # Null /\ a.date[2] < b.date[2]
sort_values(rows) ==
    LET n == Len(rows)
        Leq(i, j) == \/ LongBefore(rows[i], rows[j])
                     \/ ~ LongBefore(rows[j], rows[i]) /\ i <= j
        order == CHOOSE f \in [1..n -> 1..n] :
                     \A i, j \in 1..n : i < j => f[i] # f[j] /\ Leq(f[i], f[j])
    IN [k \in 1..n |-> rows[order[k]]]

\* tmp["_col_"]: "<flow_id> :: <series_name>", "<flow_id> :: series" for a
\* null series_name ("<NA>"); the label is kept as the pair of its parts
ColLabel(row) ==
    <<row.flow_id,
      IF row.series_name # "<NA>" THEN row.series_name ELSE "series">>

\* the observations of df_long for the pivot on date
BanrepObs(df_long) ==
    [i \in 1..Len(df_long) |->
        Obs(<<df_long[i].date>>, ColLabel(df_long[i]), df_long[i].value)]

\* the dates of the pivot's index, ascending
BanrepKeys(long) ==
    LET dates == SortedSeq({k[1][2] : k \in LiveKeys(long)})
    IN [i \in 1..Len(dates) |-> <<Num(dates[i])>>]

\* the series columns left in the order the labels are first seen
BanrepLabels_FirstSeen(long) ==
    LET firsts == {i \in Live(long) :
                      \A j \in Live(long) :
                          long[j].label = long[i].label => i <= j}
        order == SortedSeq(firsts)
    IN [k \in 1..Len(order) |-> long[order[k]].label]

\* the series columns of the pivot: pivot_table sorts the labels
BanrepLabels(long) == SortedPairs(LiveLabels(long))

\* ---- PWT _build_views
\* A row of the normalized panel: iso (country goes with it), year, and
\* the values of the variable columns var_cols.
var_cols == <<"hc", "pop">>
PanelRow(i, y, vs) == [iso |-> i, year |-> y, vals |-> vs]
PanelRows ==
    {PanelRow(i, y, <<v1, v2>>) : i \in {"A", "B"},
                                  y \in {Num(1950), Num(1951), Null},
                                  v1 \in {Num(5), Null}, v2 \in {Num(7), Null}}

\* the order _normalize_panel leaves the panel in (line 246):
\* sort_values(["iso", "year"]), a null year last
PanelSorted(rows) ==
    \A i, j \in 1..Len(rows) :
        i < j =>
            \/ OrdOf(rows[i].iso) < OrdOf(rows[j].iso)
            \/ /\ rows[i].iso = rows[j].iso
               /\ \/ rows[j].year = Null
                  \/ /\ rows[i].year # Null
                     /\ rows[i].year[2] <= rows[j].year[2]

\* df.melt(id_vars=[iso, country, year], value_vars=var_cols): variable
\* after variable, each over the rows in order; as observations of the
\* pivot on (iso, variable_code) with the years as labels
PwtObs(rows) ==
    [k \in 1..(Len(var_cols) * Len(rows)) |->
        LET v == ((k - 1) \div Len(rows)) + 1
            i == ((k - 1) % Len(rows)) + 1
        IN Obs(<<Text(rows[i].iso), Text(var_cols[v])>>, rows[i].year,
               rows[i].vals[v])]

\* years (lines 266-267): the columns of the pivot that are numbers or
\* digit strings, sorted by int(); every label of the pivot is a year
YearColumns(long) ==
    LET asc == SortedSeq({l[2] : l \in LiveLabels(long)})
    IN [k \in 1..Len(asc) |-> Num(asc[k])]

\* the keys of the vista_figura pivot, ascending by iso and variable
PwtKeys(long) ==
    LET ps == SortedPairs({<<k[1][2], k[2][2]>> : k \in LiveKeys(long)})
    IN [i \in 1..Len(ps) |-> <<Text(ps[i][1]), Text(ps[i][2])>>]

\* ---- the runs
WideInit ==
    /\ \/ /\ conf = [op |-> "consolidate"]
          /\ df_in \in SeqsUpTo(LongRows, MaxRows)
       \/ /\ conf = [op |-> "_build_views"]
          /\ df_in \in {rows \in SeqsUpTo(PanelRows, MaxRows) :
                           PanelSorted(rows)}
    /\ df = EmptyTable
    /\ warnings = <<>>
    /\ hist = <<>>
    /\ tpc = "pivot"

\* consolidate, lines 175-187: df_long (kept in hist) and df_wide
ConsolidateWide ==
    /\ tpc = "pivot" /\ conf.op = "consolidate"
    /\ LET df_long == sort_values(df_in)
           long == BanrepObs(df_long)
       IN /\ hist' = <<long>>
          /\ df' = WideTable(long, <<"date">>, BanrepKeys(long),
                             BanrepLabels(long))
    /\ tpc' = "done"
    /\ UNCHANGED <<df_in, conf, warnings>>
    /\ TableFrame

\* _build_views, lines 255-268: the melted table (kept in hist) and
\* vista_figura
BuildViews ==
    /\ tpc = "pivot" /\ conf.op = "_build_views"
    /\ LET long == PwtObs(df_in)
       IN /\ hist' = <<long>>
          /\ df' = WideTable(long, <<"iso", "variable_code">>, PwtKeys(long),
                             YearColumns(long))
    /\ tpc' = "done"
    /\ UNCHANGED <<df_in, conf, warnings>>
    /\ TableFrame

WideNext == ConsolidateWide \/ BuildViews

(* ------------------------ wide views: the claims ---------------------- *)

WideBuilt == tpc = "done" /\ conf.op \in {"consolidate", "_build_views"}

\* the long table the pivot was taken of, and the key of a row of the wide
LongTable == hist[1]
KeyWidth == IF conf.op = "consolidate" THEN 1 ELSE 2
RowKey(row) == SubSeq(row, 1, KeyWidth)
SeriesLabels ==
    [j \in 1..(Len(df.columns) - KeyWidth) |-> df.columns[KeyWidth + j][2]]

NoNullIn(k) == \A c \in 1..Len(k) : k[c] # Null

\* the observations of key k under label l that carry a value
Valued(k, l) ==
    {i \in 1..Len(LongTable) : /\ LongTable[i].key = k
                               /\ LongTable[i].label = l
                               /\ LongTable[i].value # Null}

\* every cell of the wide table holds the first non-null value of its key
\* and series in the long table, and null when there is none
CellsHoldFirstValue ==
    \A i \in 1..Len(df.rows) : \A j \in 1..Len(SeriesLabels) :
        LET hits == Valued(RowKey(df.rows[i]), SeriesLabels[j])
            cell == df.rows[i][KeyWidth + j]
        IN IF hits = {} THEN cell = Null
           ELSE \E m \in hits : /\ cell = LongTable[m].value
                                 /\ \A n \in hits : m <= n

RowsOfKey(k) == {i \in 1..Len(df.rows) : RowKey(df.rows[i]) = k}

\* C16 as stated (wide pivot key uniqueness): the wide table has exactly
\* one row per entity/time key value of the long table, and each cell
\* holds the first value encountered for its key and series.
C16_OneRowPerKey ==
    WideBuilt =>
        /\ \A n \in 1..Len(LongTable) :
               NoNullIn(LongTable[n].key)
                   => Cardinality(RowsOfKey(LongTable[n].key)) = 1
        /\ CellsHoldFirstValue

\* C16 as amended: the wide table has exactly one row per key value that
\* has at least one non-null value under a non-null series label in the
\* long table, and no other row; each cell holds the first non-null value
\* encountered for its key and series, and null when there is none.
C16_OneRowPerValuedKey ==
    WideBuilt =>
        LET HasValue(k) ==
                /\ NoNullIn(k)
                /\ \E n \in 1..Len(LongTable) :
                       /\ LongTable[n].label # Null
                       /\ Valued(k, LongTable[n].label) # {}
        IN /\ \A n \in 1..Len(LongTable) :
                  HasValue(LongTable[n].key)
                      => Cardinality(RowsOfKey(LongTable[n].key)) = 1
           /\ \A i \in 1..Len(df.rows) : HasValue(RowKey(df.rows[i]))
           /\ CellsHoldFirstValue

\* C16 witness: the same key and series occur twice in the long table
\* with two different values, and another key has only a null value.
C16_Witness_Collision ==
    /\ WideBuilt
    /\ \E m, n \in 1..Len(LongTable) :
           /\ m < n
           /\ LongTable[m].key = LongTable[n].key
           /\ LongTable[m].label = LongTable[n].label
           /\ NoNullIn(LongTable[m].key) /\ LongTable[m].label # Null
           /\ LongTable[m].value # Null /\ LongTable[n].value # Null
           /\ LongTable[m].value # LongTable[n].value
    /\ Len(df.rows) = 1

\* the key columns come first
KeyColumnsFirst ==
    /\ Len(df.columns) >= KeyWidth
    /\ \A j \in 1..Len(df.columns) : (df.columns[j][1] = "key") <=> j <= KeyWidth

\* no label of the pivot is lost: every series with a value under a
\* non-null key has its column
NoColumnLost ==
    \A n \in 1..Len(LongTable) :
        (/\ NoNullIn(LongTable[n].key) /\ LongTable[n].label # Null
         /\ LongTable[n].value # Null)
            => \E j \in 1..Len(SeriesLabels) :
                   SeriesLabels[j] = LongTable[n].label

YearsAscending ==
    \A a, b \in 1..Len(SeriesLabels) :
        a < b => SeriesLabels[a][2] < SeriesLabels[b][2]

\* the position at which a series label is first seen in the long table
FirstSeen(l) ==
    CHOOSE n \in 1..Len(LongTable) :
        /\ LongTable[n].label = l
        /\ \A m \in 1..(n - 1) : LongTable[m].label # l

\* C17 as stated (wide column order): key columns first, then the year
\* columns ascending by number, and columns that are not chronological
\* labels (the series of consolidate) in first-seen order; no pivoted
\* column is lost.
C17_WideColumnOrder ==
    WideBuilt =>
        /\ KeyColumnsFirst
        /\ NoColumnLost
        /\ conf.op = "_build_views" => YearsAscending
        /\ conf.op = "consolidate" =>
               \A a, b \in 1..Len(SeriesLabels) :
                   a < b => FirstSeen(SeriesLabels[a]) < FirstSeen(SeriesLabels[b])

\* C17 as amended: key columns first, then the year columns ascending by
\* number, and the series columns of consolidate in ascending order of
\* their labels, as pivot_table sorts them; no pivoted column is lost.
C17_WideColumnOrderSorted ==
    WideBuilt =>
        /\ KeyColumnsFirst
        /\ NoColumnLost
        /\ conf.op = "_build_views" => YearsAscending
        /\ conf.op = "consolidate" =>
               \A a, b \in 1..Len(SeriesLabels) :
                   a < b => /\ PairLeq(SeriesLabels[a], SeriesLabels[b])
                            /\ SeriesLabels[a] # SeriesLabels[b]

\* C17 witness: consolidate meets series b before series a of one flow,
\* and the wide table has both columns.
C17_Witness_SeenOutOfOrder ==
    /\ WideBuilt /\ conf.op = "consolidate"
    /\ Len(SeriesLabels) = 2
    /\ SeriesLabels[1][1] = SeriesLabels[2][1]
    /\ FirstSeen(SeriesLabels[2]) < FirstSeen(SeriesLabels[1])

(* ---------------------- SiMEM: flattening the records ------------------- *)
\* fetch_dataset_and_clean, line 261: df = pd.json_normalize(records,
\* sep="_").  A record is a JSON object, kept as the sequence of its
\* <<key, value>> entries in document order; a value is a scalar cell or a
\* nested object <<"map", entries>>.  Keys and column names are sequences
\* of characters.

MaxRecords == 2

Sep == "_"

Map(entries) == <<"map", entries>>
IsMap(v) == v[1] = "map"

\* d[k] = v on an insertion-ordered dict: an existing key keeps its place
Put(d, k, v) ==
    IF \E i \in 1..Len(d) : d[i][1] = k
    THEN [i \in 1..Len(d) |-> IF d[i][1] = k THEN <<k, v>> ELSE d[i]]
    ELSE Append(d, <<k, v>>)

\* d.update(e), {**d, **e}
RECURSIVE Update(_, _)
Update(d, e) ==
    IF e = <<>> THEN d ELSE Update(Put(d, e[1][1], e[1][2]), Tail(e))

\* pandas _normalise_json: the leaves of nested objects, each under the
\* keys of its path joined by the separator
RECURSIVE _normalise_json(_, _, _)
_normalise_json(entries, key_string, separator) ==
    IF entries = <<>> THEN <<>>
    ELSE LET e == Head(entries)
             new_key == IF key_string = <<>> THEN e[1]
                        ELSE key_string \o <<separator>> \o e[1]
             leaves == IF IsMap(e[2])
                       THEN _normalise_json(e[2][2], new_key, separator)
                       ELSE <<<<new_key, e[2]>>>>
         IN Update(leaves, _normalise_json(Tail(entries), key_string, separator))

\* pandas _normalize_json of one record: the top-level scalars first, then
\* the leaves of the nested objects
FlattenRecord(rec, separator) ==
    Update(SelectSeq(rec, LAMBDA e : ~ IsMap(e[2])),
           _normalise_json(SelectSeq(rec, LAMBDA e : IsMap(e[2])), <<>>,
                           separator))

\* DataFrame(list of dicts): the columns are the keys in the order the
\* dicts first bring them
RECURSIVE FrameColumns(_)
FrameColumns(dicts) ==
    IF dicts = <<>> THEN <<>>
    ELSE LET before == FrameColumns(SubSeq(dicts, 1, Len(dicts) - 1))
             last == dicts[Len(dicts)]
             fresh == SelectSeq(last, LAMBDA e :
                          \A j \in 1..Len(before) : before[j] # e[1])
         IN before \o [j \in 1..Len(fresh) |-> fresh[j][1]]

Lookup(d, k) ==
    IF \E i \in 1..Len(d) : d[i][1] = k
    THEN d[CHOOSE i \in 1..Len(d) : d[i][1] = k][2]
    ELSE Null

json_normalize(records, separator) ==
    LET dicts == [i \in 1..Len(records) |-> FlattenRecord(records[i], separator)]
        cols == FrameColumns(dicts)
    IN Table(cols, [i \in 1..Len(records) |->
                       [j \in 1..Len(cols) |-> Lookup(dicts[i], cols[j])]])

\* ---- the records of a response
TopKeys == {<<"a">>, <<"c">>, <<"a", "_", "b">>}
InnerKeys == {<<"b">>, <<"c">>}
DistinctKeys(entries) ==
    \A i, j \in 1..Len(entries) : i < j => entries[i][1] # entries[j][1]
InnerObjects ==
    {Map(es) : es \in {s \in SeqsUpTo(InnerKeys \X {Num(3)}, 2) :
                           Len(s) > 0 /\ DistinctKeys(s)}}
RawRecords ==
    {rec \in SeqsUpTo(TopKeys \X ({Num(1)} \cup InnerObjects), 2) :
        DistinctKeys(rec)}

FlattenInit ==
    /\ df_in \in SeqsUpTo(RawRecords, MaxRecords)
    /\ conf = [op |-> "json_normalize"]
    /\ df = EmptyTable
    /\ warnings = <<>>
    /\ hist = <<>>
    /\ tpc = "flatten"

FlattenRecords ==
    /\ tpc = "flatten"
    /\ df' = json_normalize(df_in, Sep)
    /\ tpc' = "done"
    /\ UNCHANGED <<df_in, conf, warnings, hist>>
    /\ TableFrame

FlattenNext == FlattenRecords

(* ------------------- flattening the records: the claim ------------------ *)

\* the leaves of a record in document order, each with its path
RECURSIVE DocLeaves(_, _)
DocLeaves(entries, path) ==
    IF entries = <<>> THEN <<>>
    ELSE LET e == Head(entries)
         IN (IF IsMap(e[2]) THEN DocLeaves(e[2][2], Append(path, e[1]))
             ELSE <<<<Append(path, e[1]), e[2]>>>>)
            \o DocLeaves(Tail(entries), path)

RECURSIVE Dotted(_)
Dotted(path) ==
    IF Len(path) = 1 THEN path[1] ELSE path[1] \o <<".">> \o Dotted(Tail(path))

\* the dotted paths of all records in the order they are first seen
RECURSIVE FirstSeenPaths(_)
FirstSeenPaths(records) ==
    IF records = <<>> THEN <<>>
    ELSE LET before == FirstSeenPaths(SubSeq(records, 1, Len(records) - 1))
             leaves == DocLeaves(records[Len(records)], <<>>)
             fresh == SelectSeq(leaves, LAMBDA l :
                          \A j \in 1..Len(before) : before[j] # Dotted(l[1]))
         IN before \o [j \in 1..Len(fresh) |-> Dotted(fresh[j][1])]

\* C18 (Flatten completeness): flattening yields one row per record; the
\* columns are the union of the dotted leaf paths of all records in
\* first-seen order; a cell holds the record's leaf, and the null marker
\* where the record lacks it.
C18_FlattenCompleteness ==
    (tpc = "done" /\ conf.op = "json_normalize") =>
        /\ Len(df.rows) = Len(df_in)
        /\ df.columns = FirstSeenPaths(df_in)
        /\ \A i \in 1..Len(df.rows) : \A j \in 1..Len(df.columns) :
               LET leaves == DocLeaves(df_in[i], <<>>)
                   at == {n \in 1..Len(leaves) :
                              Dotted(leaves[n][1]) = df.columns[j]}
               IN IF at = {} THEN df.rows[i][j] = Null
                  ELSE \E n \in at : df.rows[i][j] = leaves[n][2]

(* ------------------- SiMEM: the typing step on its own ------------------ *)
\* The tables json_normalize can hand to the typing step: the labels are
\* distinct, and two of them ("A H" and "a_h") have one snake_case form.
CoerceColumns ==
    {<<<<"A", " ", "H">>, <<"B">>>>,
     <<<<"A", " ", "H">>, <<"a", "_", "h">>>>,
     <<<<"B">>, <<"a", "_", "h">>>>}
CoerceCells == {Null, Text("2025-01-10"), Text(" x "), Num(1)}
CoerceSchemas ==
    Schemas \cup {<<SchemaEntry(<<"A", "_", "H">>, "fecha"),
                    SchemaEntry(<<"b">>, "")>>}

CoerceInit ==
    /\ \E cols \in CoerceColumns :
        \E rows \in SeqsUpTo(CoerceCells \X CoerceCells, MaxRows) :
            df_in = Table(cols, rows)
    /\ conf \in [op : {"coerce"}, schema_columns : CoerceSchemas,
                 to_snake : BOOLEAN, strip_text : BOOLEAN]
    /\ df = EmptyTable
    /\ warnings = <<>>
    /\ hist = <<>>
    /\ tpc = "coerce"

\* fetch_dataset_and_clean, lines 263-267: the call returns the typed
\* table, or an exception leaves it
Coerce ==
    /\ tpc = "coerce"
    /\ LET d == Typify(df_in, conf.schema_columns, conf.to_snake,
                       conf.strip_text)
       IN IF Raised(d)
          THEN df' = EmptyTable /\ tpc' = "raised"
          ELSE df' = d /\ tpc' = "done"
    /\ UNCHANGED <<df_in, conf, warnings, hist>>
    /\ TableFrame

CoerceNext == Coerce

(* --------------------- the typing step: the claims --------------------- *)

Coerced == tpc \in {"done", "raised"} /\ conf.op = "coerce"
BySchema == conf.schema_columns # <<>>

\* the texts that are a date or a datetime
ParsableTexts ==
    {"2025-01-10", "2025-01-10T12:00:00", "2025-01-11", "2025-01-11T12:00:00"}
Unparsable(c) == IsText(c) /\ c[2] \notin ParsableTexts

\* C19 (Coercion safety): _map_types_by_schema does not raise whatever the
\* cells and the declared types; under a declared date or datetime, matched
\* to the column up to case, a value that cannot be parsed becomes null and
\* every other value of the column becomes a date (a timestamp), null
\* staying null; under any other type the values become texts.
C19_CoercionSafety ==
    (Coerced /\ BySchema) =>
        /\ tpc = "done"
        /\ Len(df.rows) = Len(df_in.rows)
        /\ \A i \in 1..Len(df_in.rows) : \A j \in 1..Len(df_in.columns) :
               LET v == df_in.rows[i][j]
                   out == df.rows[i][j]
                   dtype == DeclaredType(conf.schema_columns, df_in.columns[j])
               IN /\ dtype = "fecha" =>
                         IF Unparsable(v) \/ v = Null THEN out = Null
                         ELSE IsDate(out)
                  /\ dtype = "fecha hora" =>
                         IF Unparsable(v) \/ v = Null THEN out = Null
                         ELSE IsTs(out)
                  /\ dtype \notin {"fecha", "fecha hora"} =>
                         IF v = Null THEN out = Null ELSE IsText(out)

\* C19 witness: a column declared "Fecha" under a name that differs from
\* the label in case holds a value that does not parse and one that does;
\* the call returns null for the first and the date for the second.
C19_Witness_BadValueBesideGood ==
    /\ Coerced /\ BySchema /\ tpc = "done"
    /\ \E j \in 1..Len(df_in.columns) : \E i, k \in 1..Len(df_in.rows) :
           /\ DeclaredType(conf.schema_columns, df_in.columns[j]) = "fecha"
           /\ \A n \in 1..Len(conf.schema_columns) :
                  conf.schema_columns[n].nameColumn # df_in.columns[j]
           /\ df_in.rows[i][j] = Text(" x ") /\ df.rows[i][j] = Null
           /\ df_in.rows[k][j] = Text("2025-01-10") /\ df.rows[k][j] = Date(10)

\* C20 (Structural validity of renaming): the typing step raises only on a
\* structurally invalid column set, and it raises when renaming gives two
\* columns one name: a table with duplicate column names is never
\* returned.
C20_NoDuplicateNames ==
    Coerced =>
        /\ tpc = "done" =>
               \A a, b \in 1..Len(df.columns) :
                   a # b => df.columns[a] # df.columns[b]
        /\ tpc = "raised" =>
               \E a, b \in 1..Len(df_in.columns) :
                   /\ a # b
                   /\ Canonical(df_in.columns[a], conf.to_snake)
                          = Canonical(df_in.columns[b], conf.to_snake)

(* ===================== the envelope of a response ===================== *)
\* The body of a response as the three readers see it.  kind tells how far
\* the body has the envelope: "not_json" (no JSON at all), "no_result" (an
\* object without the 'result' / 'data' key), "null_result" (the key holds
\* null), "no_rows" (the block has no 'records' / 'rows'; for Dataverse:
\* 'data' is an object, not a list), "null_rows" (they are null), "rows"
\* (the list is there).  success is SiMEM's flag.
BodyKinds ==
    {"not_json", "no_result", "null_result", "no_rows", "null_rows", "rows"}
Body(k, s, rs) == [kind |-> k, success |-> s, rows |-> rs]
Bodies ==
    {Body(k, s, <<>>) : k \in BodyKinds \ {"rows"}, s \in BOOLEAN}
        \cup {Body("rows", s, rs) : s \in BOOLEAN, rs \in SeqsUpTo({1, 2}, 2)}

IdColumn == <<"i", "d">>
IdTable(got) == Table(<<IdColumn>>, [i \in 1..Len(got) |-> <<Num(got[i])>>])

\* the outcome of reading one body: the exception, or the list taken
Raise == [raised |-> TRUE, rows |-> <<>>]
Taken(rs) == [raised |-> FALSE, rows |-> rs]

\* SiMEM fetch_dataset_and_clean, lines 246-256: resp.json() or
\* RuntimeError; success false or missing is a RuntimeError;
\* result = payload.get("result") or {}; records = result.get("records")
\* or []
SimemRecords(b) ==
    IF b.kind = "not_json" \/ ~ b.success THEN Raise
    ELSE IF b.kind = "rows" THEN Taken(b.rows)
    ELSE Taken(<<>>)

\* Dane search_catalog, lines 136-138: r.json() raises on a body that is no
\* JSON; data = r.json().get("result", {}), and data.get raises on a null
\* result; rows = data.get("rows", []) or []
DaneRows(b) ==
    IF b.kind \in {"not_json", "null_result"} THEN Raise
    ELSE IF b.kind = "rows" THEN Taken(b.rows)
    ELSE Taken(<<>>)

\* PWT list_files_latest_published, lines 162-172: DataverseError unless
\* js.get("data") is a list
DataverseData(b) ==
    IF b.kind = "rows" THEN Taken(b.rows) ELSE Raise

EnvelopePageSize == 2
EnvelopeMaxPages == 2

EnvelopeInit ==
    /\ \/ /\ conf \in [op : {"simem", "dataverse"}]
          /\ df_in \in [1..1 -> Bodies]
       \/ /\ conf = [op |-> "dane"]
          /\ df_in \in [1..EnvelopeMaxPages -> Bodies]
    /\ df = EmptyTable
    /\ warnings = <<>>
    /\ hist = <<>>
    /\ tpc = "read"

\* the call ends: with an exception, or returning the rows gathered
EnvelopeEnds(indices, out, got) ==
    /\ hist' = indices
    /\ IF out.raised THEN df' = EmptyTable /\ tpc' = "raised"
       ELSE df' = IdTable(got) /\ tpc' = "done"

ReadSimem ==
    /\ tpc = "read" /\ conf.op = "simem"
    /\ LET out == SimemRecords(df_in[1])
       IN EnvelopeEnds(<<1>>, out, out.rows)
    /\ UNCHANGED <<df_in, conf, warnings>>
    /\ TableFrame

ReadDataverse ==
    /\ tpc = "read" /\ conf.op = "dataverse"
    /\ LET out == DataverseData(df_in[1])
       IN EnvelopeEnds(<<1>>, out, out.rows)
    /\ UNCHANGED <<df_in, conf, warnings>>
    /\ TableFrame

\* one iteration of search_catalog's loop (lines 131-145, no ceiling) on
\* the body of the next page; hist holds the pages read, df the ids so far
ReadDanePage ==
    /\ tpc = "read" /\ conf.op = "dane"
    /\ LET p == Len(hist) + 1
           got == [i \in 1..Len(df.rows) |-> df.rows[i][1][2]]
       IN IF p > EnvelopeMaxPages
          THEN EnvelopeEnds(hist, Taken(<<>>), got)
          ELSE LET out == DaneRows(df_in[p])
               IN IF out.raised \/ out.rows = <<>>
                     \/ Len(out.rows) < EnvelopePageSize
                  THEN EnvelopeEnds(Append(hist, p), out, got \o out.rows)
                  ELSE /\ hist' = Append(hist, p)
                       /\ df' = IdTable(got \o out.rows)
                       /\ tpc' = "read"
    /\ UNCHANGED <<df_in, conf, warnings>>
    /\ TableFrame

EnvelopeNext == ReadSimem \/ ReadDataverse \/ ReadDanePage

(* --------------------- envelope: the claim ---------------------------- *)

\* the body has the expected envelope
ExpectedShape(b) == b.kind = "rows"

\* C21 (Parse error): a body that has not the expected envelope is
\* surfaced as a structural error: once such a body is read the call has
\* raised; it has not returned (an empty data set, or the ids of the pages
\* before it) and it reads no further page.
C21_ParseError ==
    conf.op \in {"simem", "dane", "dataverse"} =>
        \A k \in 1..Len(hist) :
            ~ ExpectedShape(df_in[hist[k]]) => tpc = "raised"

(* ================= the units of a batch, step by step ================= *)
\* The loop bodies of run_extraction (Dane, lines 305-331) and consolidate
\* (BanRep, lines 159-171), taken one call at a time: the fetch
\* (export_metadata / os.path.exists and pd.read_csv), the parse
\* (parse_study and parse_variables / the rest of load_one_flow_csv and
\* the column order), the merge (all_vars.extend / dfs.append).  ustate
\* follows each unit: "pending", "fetched", "parsed", "included", "failed".

LifeIdle ==
    /\ ustate = [u \in UnitIds |-> "pending"]
    /\ upc = "idle"
    /\ fetchLog = <<>>

LifeInit ==
    /\ bImpl \in {"dane", "banrep"}
    /\ requested \in UnitLists \ {<<>>}
    /\ q = FALSE
    /\ searchResult = [ok |-> FALSE, ids |-> <<>>]
    /\ fate \in [UnitIds -> IF bImpl = "dane" THEN DaneFates ELSE BanrepFates]
    /\ units = requested
    /\ bIdx = 1
    /\ included = <<>>
    /\ warned = <<>>
    /\ bpc = "loop"
    /\ bOutcome = BatchRunning
    /\ ustate = [u \in UnitIds |-> "pending"]
    /\ upc = "fetch"
    /\ fetchLog = <<>>

LifeFrame == UNCHANGED <<fetchVars, pageVars, cacheVars, inferVars, tableVars>>

\* the for loop takes the next element
NextIndex_Same(i) == i
NextIndex(i) == i + 1

\* Dane: md = client.export_metadata(sid).  BanRep: a CSV that does not
\* exist is warned about and skipped, any other is read by pd.read_csv.
LifeFetch ==
    /\ bpc = "loop" /\ upc = "fetch" /\ bIdx <= Len(units)
    /\ LET u == units[bIdx] IN
         IF fate[u] = "missing"
           THEN /\ warned' = Append(warned, u)
                /\ ustate' = [ustate EXCEPT ![u] = "failed"]
                /\ bIdx' = NextIndex(bIdx)
                /\ UNCHANGED <<fetchLog, upc, bpc, bOutcome>>
           ELSE /\ fetchLog' = Append(fetchLog, u)
                /\ IF fate[u] \in {"fetch_error", "load_error"}
                     THEN /\ ustate' = [ustate EXCEPT ![u] = "failed"]
                          /\ BatchEnds(BatchRaises(fate[u], u))
                          /\ upc' = "done"
                     ELSE /\ ustate' = [ustate EXCEPT ![u] = "fetched"]
                          /\ upc' = "parse"
                          /\ UNCHANGED <<bpc, bOutcome>>
                /\ UNCHANGED <<warned, bIdx>>
    /\ UNCHANGED <<bImpl, requested, q, searchResult, fate, units, included>>
    /\ LifeFrame

\* Dane: parse_study(md, sid) and parse_variables(md, sid), which raise on
\* a body they cannot read.  BanRep: the columns load_one_flow_csv and
\* consolidate add and order.
LifeParse ==
    /\ bpc = "loop" /\ upc = "parse"
    /\ LET u == units[bIdx] IN
         IF fate[u] = "parse_error"
           THEN /\ ustate' = [ustate EXCEPT ![u] = "failed"]
                /\ BatchEnds(BatchRaises(fate[u], u))
                /\ upc' = "done"
           ELSE /\ ustate' = [ustate EXCEPT ![u] = "parsed"]
                /\ upc' = "merge"
                /\ UNCHANGED <<bpc, bOutcome>>
    /\ UNCHANGED <<bImpl, requested, q, searchResult, fate, units, bIdx,
                   included, warned, fetchLog>>
    /\ LifeFrame

\* Dane: the filters and all_vars.extend(out_rows).  BanRep: dfs.append(df).
LifeMerge ==
    /\ bpc = "loop" /\ upc = "merge"
    /\ LET u == units[bIdx] IN
         /\ included' = Append(included, u)
         /\ ustate' = [ustate EXCEPT ![u] = "included"]
    /\ bIdx' = NextIndex(bIdx)
    /\ upc' = "fetch"
    /\ UNCHANGED <<bImpl, requested, q, searchResult, fate, units, warned,
                   bpc, bOutcome, fetchLog>>
    /\ LifeFrame

\* after the loop: the frames are built and returned; consolidate raises
\* when it loaded nothing
LifeFinish ==
    /\ bpc = "loop" /\ upc = "fetch" /\ bIdx > Len(units)
    /\ IF bImpl = "banrep" /\ NothingLoaded(included)
         THEN BatchEnds(BatchRaises("RuntimeError", 0))
         ELSE BatchEnds(BatchReturned)
    /\ upc' = "done"
    /\ UNCHANGED <<bImpl, requested, q, searchResult, fate, units, bIdx,
                   included, warned, ustate, fetchLog>>
    /\ LifeFrame

LifeNext == LifeFetch \/ LifeParse \/ LifeMerge \/ LifeFinish

(* ----------------------- unit lifecycle: the claims -------------------- *)

Terminal(s) == s \in {"included", "failed"}
InProgress(s) == s \in {"fetched", "parsed"}

\* one unit at a time: at most one unit is between its fetch and its end,
\* the fetches are issued in the order of the units, and when the fetch of
\* a unit has been issued every unit before it is included or failed
OneAtATime ==
    /\ Cardinality({u \in UnitIds : InProgress(ustate[u])}) <= 1
    /\ \A k \in 1..Len(fetchLog) : \A j \in 1..Len(units) :
           units[j] = fetchLog[k] =>
               /\ \A n \in 1..(k - 1) : \E m \in 1..(j - 1) :
                      units[m] = fetchLog[n]
               /\ \A m \in 1..(j - 1) : Terminal(ustate[units[m]])

\* the step of a unit from state a to state b, in the two readings
StatedMoves ==
    {<<"pending", "fetched">>, <<"fetched", "parsed">>,
     <<"parsed", "included">>, <<"pending", "failed">>}
ActualMoves == StatedMoves \cup {<<"fetched", "failed">>}
MovesWithin(moves) ==
    \A u \in UnitIds :
        ustate'[u] # ustate[u] => <<ustate[u], ustate'[u]>> \in moves

MaxNameLen == 4
NameChars == {"a", "A", "B", "1", " ", "-", "_"}

SnakeInit ==
    /\ df_in \in SeqsUpTo(NameChars, MaxNameLen)
    /\ conf = [op |-> "_snake_case"]
    /\ df = <<>>
    /\ warnings = <<>>
    /\ hist = <<>>
    /\ tpc = "call"

SnakeCase ==
    /\ tpc = "call" /\ conf.op = "_snake_case"
    /\ df' = _snake_case(df_in)
    /\ tpc' = "done"
    /\ UNCHANGED <<df_in, conf, warnings, hist>>
    /\ TableFrame

SnakeNext == SnakeCase

(* ------------------------- renaming: the claim ------------------------- *)

\* C23 (Canonical renaming): for every name the result of the rename has
\* no uppercase letter, no whitespace, hyphen or slash, and no two adjacent
\* underscores; an underscore stands between a lowercase letter and the
\* uppercase letter that followed it.
C23_CanonicalRenaming ==
    (tpc = "done" /\ conf.op = "_snake_case") =>
        /\ \A i \in 1..Len(df) : df[i] \notin UpperCase \cup Separators
        /\ \A i \in 1..(Len(df) - 1) : ~ (df[i] = "_" /\ df[i + 1] = "_")
        /\ (Len(df_in) = 2 /\ df_in[1] \in LowerCase /\ df_in[2] \in UpperCase)
               => df = <<df_in[1], "_", LowerChar(df_in[2])>>

(* ================== a pipeline run again on one source ================= *)
\* The three pipelines run MaxRuns times in a row with the same parameters
\* against a source that answers the same each time.  conf holds the
\* parameters and what the source answers, df_in the files under out_dir,
\* which a run may write and the next run reads; hist holds, for each run,
\* the files it started from and what it returned or raised.

\* ---- PWT load_pwt, lines 285-322
\* download_file_by_id(base, meta.id, original=True): the bytes, or the
\* exception that leaves it
download_file_by_id(original, fallback) ==
    IF original \in Contents THEN original
    ELSE IF original = "HTTPError" THEN fallback
    ELSE original

\* what the reader and the rest of load_pwt make of the raw bytes
PwtTables(label, b) ==
    IF Reads(label, b) THEN <<"returned", b>> ELSE <<"ParseError", b>>

load_pwt(files, c) ==
    LET cached == IF c.use_cache THEN _maybe_use_cache(files, c.meta)
                  ELSE None
        got == download_file_by_id(c.original, c.fallback)
    IN IF cached # None
       THEN [files |-> files, result |-> PwtTables(c.meta.label, cached)]
       ELSE IF got \notin Contents
       THEN [files |-> files, result |-> <<got, None>>]
       ELSE [files |-> write_bytes(files, c.meta.label, got),
             result |-> PwtTables(c.meta.label, got)]

\* ---- SiMEM fetch_dataset_and_clean, lines 261-292, on the table of the
\* response's records
fetch_dataset_and_clean(d, c) ==
    LET typed == Typify(d, c.schema_columns, c.to_snake, c.strip_text)
        nonull == IF c.drop_all_null_columns /\ ~ IsEmpty(typed)
                  THEN dropna_columns(typed) ELSE typed
        dedup == IF c.drop_duplicates /\ ~ IsEmpty(nonull)
                 THEN drop_duplicates(nonull) ELSE nonull
        filt == IF c.client_filters # <<>>
                THEN _apply_client_filters(dedup, c.client_filters,
                                           c.to_snake).df
                ELSE dedup
        dated == IF c.client_date_filter # NoDateFilter
                 THEN _apply_client_date_filter(filt, c.client_date_filter,
                                                c.to_snake).df
                 ELSE filt
    IN IF c.subset_columns # <<>>
       THEN SubsetColumns(dated, c.subset_columns, c.to_snake).df
       ELSE dated

\* ---- BanRep consolidate, lines 150-208
\* the CSV files of out_dir/data: F.csv and G.csv of two flows, and L.csv,
\* where save_csv_long points when it is set to a path in out_dir/data
FlowFiles == {"F", "G", "L"}
\* a CSV file of out_dir/data: whether it exists, and its rows
FlowFile(rows) == [exists |-> TRUE, rows |-> rows]
NoFlowFile == [exists |-> FALSE, rows |-> <<>>]
FlowRows ==
    {LongRow(f, Num(1), s, v) : f \in {"F"}, s \in {"a", "b"},
                                v \in {Num(5), Null}}

\* load_one_flow_csv(path) and df["flow_id"] = fid
LoadFlow(files, fid) ==
    [i \in 1..Len(files[fid].rows) |->
        [files[fid].rows[i] EXCEPT !.flow_id = fid]]

RECURSIVE ConcatFlows(_, _)
\* the loop over flows and pd.concat(dfs): a flow without CSV is skipped
ConcatFlows(files, flows) ==
    IF flows = <<>> THEN <<>>
    ELSE (IF ~ files[Head(flows)].exists THEN <<>>
          ELSE LoadFlow(files, Head(flows)))
         \o ConcatFlows(files, Tail(flows))

RECURSIVE SortedNames(_)
\* sorted(...) of a set of file names
SortedNames(S) ==
    IF S = {} THEN <<>>
    ELSE LET n == CHOOSE x \in S : \A y \in S : OrdOf(x) <= OrdOf(y)
         IN <<n>> \o SortedNames(S \ {n})

consolidate(files, c) ==
    LET flows == IF c.flows = <<>>
                 THEN SortedNames({f \in FlowFiles : files[f].exists})
                 ELSE c.flows
        loaded == {i \in 1..Len(flows) : files[flows[i]].exists}
        df_long == sort_values(ConcatFlows(files, flows))
        long == BanrepObs(df_long)
        df_wide == WideTable(long, <<"date">>, BanrepKeys(long),
                             BanrepLabels(long))
    IN IF flows = <<>> \/ loaded = {}
       THEN [files |-> files, result |-> <<"RuntimeError">>]
       ELSE [files |-> IF c.save_csv_long = "data"
                       THEN [files EXCEPT !["L"] = FlowFile(df_long)]
                       ELSE files,
             result |-> <<"returned", df_long, df_wide>>]

\* ---- the runs
PwtResponses == Contents \cup {"HTTPError", "TransportError"}
RerunConfs ==
    [op : {"load_pwt"}, meta : Metas, use_cache : BOOLEAN,
     original : PwtResponses, fallback : PwtResponses]
    \cup [op : {"fetch_dataset_and_clean"},
          records : {Table(RawColumns, rows) :
                        rows \in SeqsUpTo(RawCells1 \X RawCells2, MaxRows)},
          schema_columns : Schemas, to_snake : BOOLEAN, strip_text : {TRUE},
          drop_duplicates : BOOLEAN, drop_all_null_columns : BOOLEAN,
          client_filters : {<<>>, <<EqFilter(<<"b">>, {"x"})>>},
          client_date_filter : DateFilterChoices,
          subset_columns : {<<>>, <<<<"B">>>>}]
    \cup [op : {"consolidate"}, flows : {<<>>, <<"F">>, <<"G", "F">>},
          save_csv_long : {"catalog", "data"}]

RerunInit ==
    /\ conf \in RerunConfs
    /\ df_in \in
          IF conf.op = "load_pwt"
          THEN [FileNames -> Contents \cup {NoFile}]
          ELSE IF conf.op = "consolidate"
          THEN {[f \in FlowFiles |->
                    IF f = "F" THEN a ELSE IF f = "G" THEN b
                    ELSE NoFlowFile] :
                    a, b \in {NoFlowFile}
                        \cup {FlowFile(rows) : rows \in SeqsUpTo(FlowRows, 1)}}
          ELSE {<<>>}
    /\ df = EmptyTable
    /\ warnings = <<>>
    /\ hist = <<>>
    /\ tpc = "run"

\* one run ended: what it started from and what it gave are kept
RunEnds(files, result) ==
    /\ hist' = Append(hist, [start |-> df_in, result |-> result])
    /\ df_in' = files
    /\ tpc' = IF Len(hist) + 1 >= MaxRuns THEN "done" ELSE "run"
    /\ UNCHANGED <<conf, df, warnings>>
    /\ TableFrame

RunPwt ==
    /\ tpc = "run" /\ conf.op = "load_pwt"
    /\ LET out == load_pwt(df_in, conf) IN RunEnds(out.files, out.result)

RunSimem ==
    /\ tpc = "run" /\ conf.op = "fetch_dataset_and_clean"
    /\ RunEnds(df_in, fetch_dataset_and_clean(conf.records, conf))

RunBanrep ==
    /\ tpc = "run" /\ conf.op = "consolidate"
    /\ LET out == consolidate(df_in, conf) IN RunEnds(out.files, out.result)

RerunNext == RunPwt \/ RunSimem \/ RunBanrep

(* ------------------------ run again: the claim ------------------------- *)

IsRerun == conf.op \in {"load_pwt", "fetch_dataset_and_clean", "consolidate"}

\* runs i and j met the same source: the remote source answers the same by
\* construction, and consolidate's source is the CSV files under
\* out_dir/data
SameSource(i, j) ==
    conf.op = "consolidate" => hist[i].start = hist[j].start

\* C24 (Idempotence): two runs of a pipeline with the same parameters on
\* identical source data give identical tables (columns, rows and values
\* in the same order), also when the later run is served from the cache
\* file the earlier run wrote; a run that raises raises again.
C24_Idempotence ==
    IsRerun =>
        \A i, j \in 1..Len(hist) :
            (i < j /\ SameSource(i, j)) => hist[i].result = hist[j].result

\* C24 witness: the first run of load_pwt found a stale file, downloaded
\* and wrote the new one; the second run took it from the cache; both
\* returned the same tables.
C24_Witness_ServedFromCache ==
    /\ conf.op = "load_pwt" /\ conf.use_cache /\ Len(hist) = 2
    /\ LET p == _safe_name(conf.meta.label)
       IN /\ hist[1].start[p] \notin {NoFile, conf.original}
          /\ hist[2].start[p] = conf.original
          /\ conf.meta.checksum = md5(conf.original)
    /\ hist[1].result[1] = "returned"
    /\ hist[2].result = hist[1].result

(* ============== a stage and the table it was given ==================== *)
\* One call of a stage on a table the caller keeps.  df_in is the caller's
\* table object: an assignment `df[col] = ...` on the parameter writes into
\* it, while df.copy(), df.rename(...) and df.loc[mask].copy() make a new
\* object.  Each stage gives the table object it was given, as it is after
\* the call, and the table it returns.
Call(g, ret) == [given |-> g, returned |-> ret]

\* _map_types_by_schema, lines 127-140: the loop assigns into df, the
\* rename (if any) makes the table returned
MapTypesCall(d, c) ==
    Call(_map_types_by_schema(d, c.schema_columns, FALSE, c.strip_text),
         _map_types_by_schema(d, c.schema_columns, c.to_snake, c.strip_text))

\* _fallback_infer_types, lines 145-158: likewise
InferTypesCall(d, c) ==
    Call(_fallback_infer_types(d, FALSE, c.strip_text),
         _fallback_infer_types(d, c.to_snake, c.strip_text))

\* _apply_client_filters, lines 164-181: res = res.loc[mask].copy()
ClientFiltersCall(d, c) ==
    Call(d, _apply_client_filters(d, c.client_filters, c.to_snake).df)

\* _apply_client_date_filter, lines 187-211: s is a new series, the result
\* df.loc[mask].copy()
DateFilterCall(d, c) ==
    Call(d, _apply_client_date_filter(d, c.client_date_filter, c.to_snake).df)

\* pd.to_numeric(x, errors="coerce") on one cell
to_numeric(c) ==
    IF IsNum(c) THEN c
    ELSE IF c = Text("5") THEN Num(5)
    ELSE IF c = Text("1950") THEN Num(1950)
    ELSE Null

\* BanRep _enforce_schema_strings, lines 100-122, on the rows of df_long:
\* out = df.copy(); date to datetime (the date texts of the model do not
\* parse), value to a number, the other columns to strings
_enforce_schema_strings(rows) ==
    [i \in 1..Len(rows) |->
        [rows[i] EXCEPT !.date = IF IsNum(@) THEN @ ELSE Null,
                        !.value = to_numeric(@)]]
EnforceCall(rows) == Call(rows, _enforce_schema_strings(rows))

\* PWT _normalize_panel, lines 235-246, on the rows of the panel: the
\* rename makes a new table, its year becomes Int64, its rows are sorted by
\* iso and year, a null year last and equal rows in their order
_normalize_panel(rows) ==
    LET n == Len(rows)
        cast == [i \in 1..n |-> [rows[i] EXCEPT !.year = to_numeric(@)]]
        order == CHOOSE f \in [1..n -> 1..n] :
                     /\ \A i, j \in 1..n : i < j => f[i] # f[j]
                     /\ PanelSorted([k \in 1..n |-> cast[f[k]]])
                     /\ \A i, j \in 1..n :
                            (/\ i < j /\ f[i] > f[j])
                                => ~ PanelSorted(<<cast[f[j]], cast[f[i]]>>)
    IN [k \in 1..n |-> cast[order[k]]]
NormalizeCall(rows) == Call(rows, _normalize_panel(rows))

\* ---- the calls
RawLongRows ==
    {LongRow(f, d, s, v) : f \in {"F", "G"},
                           d \in {Num(1), Text("n/a"), Null},
                           s \in {"a"},
                           v \in {Num(5), Text("5"), Text("x"), Null}}
RawPanelRows ==
    {PanelRow(i, y, <<v1, Null>>) : i \in {"A", "B"},
                                    y \in {Num(1950), Text("1950"), Null},
                                    v1 \in {Num(5), Null}}
TableStages ==
    {"_map_types_by_schema", "_fallback_infer_types",
     "_apply_client_filters", "_apply_client_date_filter"}

StageCallInit ==
    /\ \/ /\ conf \in [op : TableStages, schema_columns : Schemas \ {<<>>},
                       to_snake : BOOLEAN, strip_text : BOOLEAN,
                       client_filters : {<<EqFilter(<<"b">>, {"x"})>>},
                       client_date_filter : DateFilterChoices \ {NoDateFilter}]
          /\ \E rows \in SeqsUpTo(RawCells1 \X RawCells2, MaxRows) :
                 df_in = Table(RawColumns, rows)
       \/ /\ conf = [op |-> "_enforce_schema_strings"]
          /\ df_in \in SeqsUpTo(RawLongRows, MaxRows)
       \/ /\ conf = [op |-> "_normalize_panel"]
          /\ df_in \in SeqsUpTo(RawPanelRows, MaxRows)
    /\ df = EmptyTable
    /\ warnings = <<>>
    /\ hist = <<>>
    /\ tpc = "call"

\* the call returns: hist keeps the table as it was given
Returns(call) ==
    /\ hist' = <<df_in>>
    /\ df_in' = call.given
    /\ df' = call.returned
    /\ tpc' = "done"
    /\ UNCHANGED <<conf, warnings>>
    /\ TableFrame

CallMapTypes ==
    /\ tpc = "call" /\ conf.op = "_map_types_by_schema"
    /\ Returns(MapTypesCall(df_in, conf))
CallInferTypes ==
    /\ tpc = "call" /\ conf.op = "_fallback_infer_types"
    /\ Returns(InferTypesCall(df_in, conf))
CallClientFilters ==
    /\ tpc = "call" /\ conf.op = "_apply_client_filters"
    /\ Returns(ClientFiltersCall(df_in, conf))
CallDateFilter ==
    /\ tpc = "call" /\ conf.op = "_apply_client_date_filter"
    /\ Returns(DateFilterCall(df_in, conf))
CallEnforce ==
    /\ tpc = "call" /\ conf.op = "_enforce_schema_strings"
    /\ Returns(EnforceCall(df_in))
CallNormalize ==
    /\ tpc = "call" /\ conf.op = "_normalize_panel"
    /\ Returns(NormalizeCall(df_in))

StageCallNext ==
    \/ CallMapTypes \/ CallInferTypes \/ CallClientFilters
    \/ CallDateFilter \/ CallEnforce \/ CallNormalize

(* ----------------------- stage calls: the claim ------------------------ *)

StageReturned ==
    tpc = "done" /\ conf.op \in TableStages
                        \cup {"_enforce_schema_strings", "_normalize_panel"}

\* C25 (Stage immutability): after a stage returns, the table it was given
\* has the same columns, names and cell values as before the call.
C25_StageImmutability == StageReturned => df_in = hist[1]

(* ================= Dane: the variable filters of a run ================ *)
\* run_extraction, lines 302-331.  A text is the sequence of its
\* characters; file_ids is None or the text "1;3;5", kept here as the list
\* of the pieces between the semicolons.
MaxVars == 2     \* a study has at most MaxVars parsed variables

\* an optional argument or field: NotGiven, or a list or text
NotGiven == [given |-> FALSE, val |-> <<>>]
Some(v) == [given |-> TRUE, val |-> v]

VarRow(name, label, files) ==
    [var_name |-> Some(name), var_label |-> Some(label), file_ids |-> files]
\* rows parse_variables can give: the name stripped and not empty, the
\* label stripped, file_ids None or the decimal texts of the file ids
VarRows ==
    {VarRow(<<"A">>, <<"h">>, NotGiven),
     VarRow(<<"a">>, <<>>, Some(<<"1", "2">>)),
     VarRow(<<"b">>, <<"H">>, Some(<<"2">>)),
     VarRow(<<"a", "b">>, <<"h">>, Some(<<"1">>))}

\* `x if x else None` and `if x:` on an optional list or text: None and the
\* empty one count alike
Truthy(x) == x.given /\ x.val # <<>>
\* `r[k] or ""`
OrEmpty(x) == IF Truthy(x) THEN x.val ELSE <<>>
Elements(l) == {l[i] : i \in DOMAIN l}

\* re.compile(p, flags=re.IGNORECASE).search(text), p without
\* metacharacters: p occurs in text, case aside
Search(p, text) ==
    \E i \in 1..(Len(text) - Len(p) + 1) :
        lower(SubSeq(text, i, i + Len(p) - 1)) = lower(p)

\* x.isdigit() and int(x) on a piece of file_ids
IsDigitText(x) == x \in {"1", "2", "3"}
IntOf(x) == CASE x = "1" -> 1 [] x = "2" -> 2 [] x = "3" -> 3
\* [int(x) for x in (r.get("file_ids") or "").split(";") if x.isdigit()]
RowFileIds(row) ==
    LET pieces == OrEmpty(row.file_ids)
    IN {IntOf(pieces[i]) : i \in {j \in DOMAIN pieces : IsDigitText(pieces[j])}}

\* name_set = {s.lower() for s in var_names} if var_names else None
HasNameSet(c) == Truthy(c.var_names)
name_set(c) == {lower(s) : s \in Elements(c.var_names.val)}

\* lines 315-327 with every test passed on to the next by `or`
Keeps_AnyFilter(c, row) ==
    LET ok1 == IF HasNameSet(c)
                 THEN lower(OrEmpty(row.var_name)) \in name_set(c) ELSE FALSE
        ok2 == IF Truthy(c.var_name_regex)
                 THEN ok1 \/ Search(c.var_name_regex.val, OrEmpty(row.var_name))
                 ELSE ok1
        ok3 == IF Truthy(c.var_label_regex)
                 THEN ok2 \/ Search(c.var_label_regex.val, OrEmpty(row.var_label))
                 ELSE ok2
    IN IF Truthy(c.file_ids_filter)
         THEN ok3 \/ RowFileIds(row) \cap Elements(c.file_ids_filter.val) # {}
         ELSE ok3

\* lines 315-327: ok after the four tests
Keeps(c, row) ==
    LET ok1 == IF HasNameSet(c)
                 THEN lower(OrEmpty(row.var_name)) \in name_set(c) ELSE TRUE
        ok2 == IF ok1 /\ Truthy(c.var_name_regex)
                 THEN Search(c.var_name_regex.val, OrEmpty(row.var_name))
                 ELSE ok1
        ok3 == IF ok2 /\ Truthy(c.var_label_regex)
                 THEN Search(c.var_label_regex.val, OrEmpty(row.var_label))
                 ELSE ok2
    IN IF ok3 /\ Truthy(c.file_ids_filter)
         THEN RowFileIds(row) \cap Elements(c.file_ids_filter.val) # {}
         ELSE ok3

\* out_rows of one study
out_rows(c, rows) == LET Kept(row) == Keeps(c, row) IN SelectSeq(rows, Kept)

VarFilters ==
    [var_names : {NotGiven, Some(<<>>), Some(<<<<"A">>>>)},
     var_name_regex : {NotGiven, Some(<<>>), Some(<<"B">>)},
     var_label_regex : {NotGiven, Some(<<"h">>)},
     file_ids_filter : {NotGiven, Some(<<>>), Some(<<2, 3>>)}]

\* conf: the filters; df_in: the variables parse_variables gives for each
\* study of study_ids; hist: out_rows of the studies done; df: all_vars
VarFilterInit ==
    /\ conf \in VarFilters
    /\ df_in \in [1..2 -> SeqsUpTo(VarRows, MaxVars)]
    /\ df = <<>>
    /\ hist = <<>>
    /\ warnings = <<>>
    /\ tpc = "loop"

\* one iteration of `for sid in study_ids`
FilterStudy ==
    /\ tpc = "loop" /\ Len(hist) < Len(df_in)
    /\ LET kept == out_rows(conf, df_in[Len(hist) + 1])
       IN /\ hist' = Append(hist, kept)
          /\ df' = df \o kept
    /\ UNCHANGED <<conf, df_in, warnings, tpc>>
    /\ TableFrame

\* the same iteration when export_metadata, parse_study or parse_variables
\* raises: the error leaves run_extraction
StudyRaises ==
    /\ tpc = "loop" /\ Len(hist) < Len(df_in)
    /\ tpc' = "raised"
    /\ UNCHANGED <<conf, df_in, df, hist, warnings>>
    /\ TableFrame

\* the loop is over: df_vars is built from all_vars
FilterDone ==
    /\ tpc = "loop" /\ Len(hist) = Len(df_in)
    /\ tpc' = "done"
    /\ UNCHANGED <<conf, df_in, df, hist, warnings>>
    /\ TableFrame

VarFilterNext == FilterStudy \/ StudyRaises \/ FilterDone

(* ---------------------- variable filters: the claim -------------------- *)

\* a filter the caller passed, whatever it holds
Passed(x) == x.given
\* a filter the caller passed with something in it
PassedNonEmpty(x) == x.given /\ x.val # <<>>

InNames(c, row) ==
    \E i \in DOMAIN c.var_names.val :
        lower(c.var_names.val[i]) = lower(row.var_name.val)
MatchesName(c, row) == Search(c.var_name_regex.val, row.var_name.val)
MatchesLabel(c, row) == Search(c.var_label_regex.val, row.var_label.val)
SharesFile(c, row) ==
    \E i \in DOMAIN c.file_ids_filter.val :
        \E j \in DOMAIN row.file_ids.val :
            row.file_ids.val[j] \in {"1", "2", "3"}
                /\ IntOf(row.file_ids.val[j]) = c.file_ids_filter.val[i]

\* the row satisfies every filter that was passed
SatisfiesPassed(row) ==
    /\ Passed(conf.var_names) => InNames(conf, row)
    /\ Passed(conf.var_name_regex) => MatchesName(conf, row)
    /\ Passed(conf.var_label_regex) => MatchesLabel(conf, row)
    /\ Passed(conf.file_ids_filter) => SharesFile(conf, row)
\* the row satisfies every filter that was passed with something in it
SatisfiesNonEmpty(row) ==
    /\ PassedNonEmpty(conf.var_names) => InNames(conf, row)
    /\ PassedNonEmpty(conf.var_name_regex) => MatchesName(conf, row)
    /\ PassedNonEmpty(conf.var_label_regex) => MatchesLabel(conf, row)
    /\ PassedNonEmpty(conf.file_ids_filter) => SharesFile(conf, row)

RECURSIVE RowsInOrder(_)
\* the rows of the first k studies, study after study, each in its order
RowsInOrder(k) ==
    IF k = 0 THEN <<>> ELSE RowsInOrder(k - 1) \o df_in[k]

FilterRunning == tpc \in {"loop", "done", "raised"}

\* C28 (conjunctive variable filters): the rows kept are exactly the parsed
\* rows that satisfy every filter that was supplied, in study order then
\* variable order; with no filter supplied every parsed row is kept.
C28_ConjunctiveFilters ==
    FilterRunning =>
        df = SelectSeq(RowsInOrder(Len(hist)), SatisfiesPassed)

\* C28 as the code has it: a filter counts as supplied when it is neither
\* None nor empty; the rows kept are exactly the parsed rows that satisfy
\* every such filter, in study order then variable order, and with no such
\* filter every parsed row is kept.
C28_ConjunctiveNonEmptyFilters ==
    FilterRunning =>
        df = SelectSeq(RowsInOrder(Len(hist)), SatisfiesNonEmpty)

\* C28 witness: with a name list and a file filter both given, a run over
\* two studies kept a row of each and dropped a row that passes the name
\* list alone.
C28_Witness_KeptAndDropped ==
    /\ tpc = "done" /\ Len(hist) = 2
    /\ PassedNonEmpty(conf.var_names) /\ PassedNonEmpty(conf.file_ids_filter)
    /\ hist[1] # <<>> /\ hist[2] # <<>>
    /\ \E i \in DOMAIN df_in[1] :
          InNames(conf, df_in[1][i]) /\ ~ SharesFile(conf, df_in[1][i])
    /\ Len(df) < Len(RowsInOrder(2))

-----------------------------------------------------------------------------
(* =========================== Specifications =========================== *)

\* one call of the retrying GET
InitFetch ==
    FetchInit /\ BatchIdle /\ PageIdle /\ CacheIdle /\ InferIdle /\ TableIdle
        /\ LifeIdle
SpecFetch == InitFetch /\ [][FetchNext]_vars

\* one run of an orchestrator
InitBatch ==
    BatchInit /\ FetchIdle /\ PageIdle /\ CacheIdle /\ InferIdle /\ TableIdle
        /\ LifeIdle
SpecBatch == InitBatch /\ [][BatchNext]_vars

\* one call of search_catalog
InitPage ==
    PageInit /\ FetchIdle /\ BatchIdle /\ CacheIdle /\ InferIdle /\ TableIdle
        /\ LifeIdle
SpecPage == InitPage /\ [][PageNext]_vars
\* search_catalog is one sequential loop and every request has a timeout:
\* a step that can be taken is taken
SpecPageLive == InitPage /\ [][PageNext]_vars /\ WF_vars(PageNext)

\* runs of load_pwt, one after the other, over one out_dir
InitCache ==
    CacheInit /\ FetchIdle /\ BatchIdle /\ PageIdle /\ InferIdle /\ TableIdle
        /\ LifeIdle
SpecCache == InitCache /\ [][CacheNext]_vars

\* _fallback_infer_types applied to one column
InitInfer ==
    InferInit /\ FetchIdle /\ BatchIdle /\ PageIdle /\ CacheIdle /\ TableIdle
        /\ LifeIdle
SpecInfer == InitInfer /\ [][InferNext]_vars

\* one call of _apply_client_date_filter
InitDateFilter ==
    DateFilterInit /\ FetchIdle /\ BatchIdle /\ PageIdle /\ CacheIdle
    /\ InferIdle
        /\ LifeIdle
SpecDateFilter == InitDateFilter /\ [][DateFilterNext]_vars

\* one call of _apply_client_filters
InitEqFilter ==
    EqFilterInit /\ FetchIdle /\ BatchIdle /\ PageIdle /\ CacheIdle
    /\ InferIdle
        /\ LifeIdle
SpecEqFilter == InitEqFilter /\ [][EqFilterNext]_vars

\* the table stages of one run of fetch_dataset_and_clean
InitClean ==
    CleanInit /\ FetchIdle /\ BatchIdle /\ PageIdle /\ CacheIdle /\ InferIdle
        /\ LifeIdle
SpecClean == InitClean /\ [][CleanNext]_vars

\* one wide view built, by consolidate or by _build_views
InitWide ==
    WideInit /\ FetchIdle /\ BatchIdle /\ PageIdle /\ CacheIdle /\ InferIdle
        /\ LifeIdle
SpecWide == InitWide /\ [][WideNext]_vars
InitFlatten ==
    FlattenInit /\ FetchIdle /\ BatchIdle /\ PageIdle /\ CacheIdle /\ InferIdle
        /\ LifeIdle
SpecFlatten == InitFlatten /\ [][FlattenNext]_vars

InitCoerce ==
    CoerceInit /\ FetchIdle /\ BatchIdle /\ PageIdle /\ CacheIdle /\ InferIdle
        /\ LifeIdle
SpecCoerce == InitCoerce /\ [][CoerceNext]_vars

InitEnvelope ==
    EnvelopeInit /\ FetchIdle /\ BatchIdle /\ PageIdle /\ CacheIdle /\ InferIdle
        /\ LifeIdle
SpecEnvelope == InitEnvelope /\ [][EnvelopeNext]_vars

\* the loop of an orchestrator over its units, call by call
InitLife ==
    LifeInit /\ FetchIdle /\ PageIdle /\ CacheIdle /\ InferIdle /\ TableIdle
SpecLife == InitLife /\ [][LifeNext]_vars

\* _snake_case applied to one name
InitSnake ==
    SnakeInit /\ FetchIdle /\ BatchIdle /\ PageIdle /\ CacheIdle /\ InferIdle
        /\ LifeIdle
SpecSnake == InitSnake /\ [][SnakeNext]_vars

\* a pipeline run MaxRuns times on one source
InitRerun ==
    RerunInit /\ FetchIdle /\ BatchIdle /\ PageIdle /\ CacheIdle /\ InferIdle
        /\ LifeIdle
SpecRerun == InitRerun /\ [][RerunNext]_vars

\* one call of a stage on a table the caller keeps
InitStageCall ==
    StageCallInit /\ FetchIdle /\ BatchIdle /\ PageIdle /\ CacheIdle
        /\ InferIdle /\ LifeIdle
SpecStageCall == InitStageCall /\ [][StageCallNext]_vars

\* the variable filters of one run_extraction
InitVarFilter ==
    VarFilterInit /\ FetchIdle /\ BatchIdle /\ PageIdle /\ CacheIdle
        /\ InferIdle /\ LifeIdle
SpecVarFilter == InitVarFilter /\ [][VarFilterNext]_vars

=============================================================================
